---- MODULE Spec2Model ----
(***************************************************************************)
(* A model of grit (maxledlie/grit): the object store (objects.rs), the    *)
(* staging index codec (index.rs), staging (add.rs) and the tree builder   *)
(* (write_tree.rs).                                                        *)
(*                                                                         *)
(* Conventions.  A byte string is a sequence of integers 0..255; Rust's    *)
(* 0-based slice bytes[a..b] is SubSeq(bytes, a + 1, b).  A fallible       *)
(* function returns a record whose tag is "ok", "err" (an Err value) or    *)
(* "panic" (the process aborts).  Integers of the code are u32; the model  *)
(* only ever holds values below 2^31, the range of the checker's integers. *)
(* The SHA-1 and zlib libraries are outside the repository: Sha1 is a      *)
(* 20-byte positional digest and Deflate/Inflate a framed copy with a      *)
(* header and a check byte, so that both remain real conversions.          *)
(***************************************************************************)
EXTENDS Integers, Sequences, FiniteSets, TLC

VARIABLES
    indexFile,   \* <root>/.grit/index: [exists, bytes]
    store,       \* <root>/.grit/objects: [dirs, files], files keyed by <<dir, name>>
    op,          \* the last operation run and what it returned
    index,       \* write_tree: the items of the index handed to the tree builder
    onDisk,      \* write_tree: the index paths for which Path::is_file() answers true
    stack,       \* write_tree: the frames of the write_subtree calls in progress
    ret,         \* write_tree: the value the last finished write_subtree call returned
    procs,       \* processes running side by side: each one's command, position and memory
    fsys         \* directories and files outside .grit/objects and the index: path -> node

vars == <<indexFile, store, op, index, onDisk, stack, ret, procs, fsys>>

-----------------------------------------------------------------------------
(* Bounds of the model *)

MaxItems == 2
MaxStat == 2

-----------------------------------------------------------------------------
(* Bytes and text *)

Min(a, b) == IF a < b THEN a ELSE b

Zeros(n) == [i \in 1..n |-> 0]

RECURSIVE Concat(_)
Concat(seqs) == IF seqs = <<>> THEN <<>> ELSE Head(seqs) \o Concat(Tail(seqs))

\* The first 0-based position of byte b in bytes, or -1: iter().position(|x| x == b)
position(bytes, b) ==
    IF \E i \in 1..Len(bytes) : bytes[i] = b
    THEN (CHOOSE i \in 1..Len(bytes) : bytes[i] = b /\ \A j \in 1..(i - 1) : bytes[j] # b) - 1
    ELSE -1

IsCont(b) == b >= 128 /\ b <= 191

\* The length of the well-formed UTF-8 sequence starting at s[i], or 0 if there is none.
Utf8Len(s, i) ==
    LET b == s[i]
        n == Len(s)
        c(j, lo, hi) == i + j <= n /\ s[i + j] >= lo /\ s[i + j] <= hi
    IN  IF b < 128 THEN 1
        ELSE IF b >= 194 /\ b <= 223 THEN (IF c(1, 128, 191) THEN 2 ELSE 0)
        ELSE IF b = 224 THEN (IF c(1, 160, 191) /\ c(2, 128, 191) THEN 3 ELSE 0)
        ELSE IF b = 237 THEN (IF c(1, 128, 159) /\ c(2, 128, 191) THEN 3 ELSE 0)
        ELSE IF b >= 225 /\ b <= 239 THEN (IF c(1, 128, 191) /\ c(2, 128, 191) THEN 3 ELSE 0)
        ELSE IF b = 240 THEN (IF c(1, 144, 191) /\ c(2, 128, 191) /\ c(3, 128, 191) THEN 4 ELSE 0)
        ELSE IF b >= 241 /\ b <= 243 THEN (IF c(1, 128, 191) /\ c(2, 128, 191) /\ c(3, 128, 191) THEN 4 ELSE 0)
        ELSE IF b = 244 THEN (IF c(1, 128, 143) /\ c(2, 128, 191) /\ c(3, 128, 191) THEN 4 ELSE 0)
        ELSE 0

\* The length of the maximal ill-formed subpart starting at s[i] (Utf8Len(s, i) = 0).
BadLen(s, i) ==
    LET b == s[i]
        n == Len(s)
        c(j, lo, hi) == i + j <= n /\ s[i + j] >= lo /\ s[i + j] <= hi
        lo1 == IF b = 224 THEN 160 ELSE IF b = 240 THEN 144 ELSE 128
        hi1 == IF b = 237 THEN 159 ELSE IF b = 244 THEN 143 ELSE 191
    IN  IF b < 194 \/ b > 244 THEN 1
        ELSE IF ~c(1, lo1, hi1) THEN 1
        ELSE IF b <= 223 THEN 1
        ELSE IF ~c(2, 128, 191) THEN 2
        ELSE IF b <= 239 THEN 2
        ELSE IF ~c(3, 128, 191) THEN 3
        ELSE 3

IsAscii(s) == \A i \in 1..Len(s) : s[i] < 128

RECURSIVE Utf8From(_, _)
Utf8From(s, i) ==
    IF i > Len(s) THEN TRUE
    ELSE IF Utf8Len(s, i) = 0 THEN FALSE
    ELSE Utf8From(s, i + Utf8Len(s, i))

\* String::from_utf8(bytes).is_ok()
IsUtf8(s) == IsAscii(s) \/ Utf8From(s, 1)

Replacement == <<239, 191, 189>>

RECURSIVE LossyFrom(_, _)
LossyFrom(s, i) ==
    IF i > Len(s) THEN <<>>
    ELSE IF Utf8Len(s, i) = 0 THEN Replacement \o LossyFrom(s, i + BadLen(s, i))
    ELSE SubSeq(s, i, i + Utf8Len(s, i) - 1) \o LossyFrom(s, i + Utf8Len(s, i))

\* String::from_utf8_lossy / OsStr::to_string_lossy: ill-formed parts become U+FFFD.
to_string_lossy(s) == IF IsAscii(s) THEN s ELSE LossyFrom(s, 1)

RECURSIVE Digits(_, _)
Digits(n, base) ==
    IF n < base THEN <<48 + n>> ELSE Append(Digits(n \div base, base), 48 + (n % base))

\* usize::to_string and format!("{:o}")
to_string(n) == Digits(n, 10)
fmt_octal(n) == Digits(n, 8)

HexDigit(d) == IF d < 10 THEN 48 + d ELSE 87 + d

\* hex::encode
hex_encode(bytes) ==
    [i \in 1..(2 * Len(bytes)) |->
        LET b == bytes[(i + 1) \div 2]
        IN  HexDigit(IF i % 2 = 1 THEN b \div 16 ELSE b % 16)]

HexVal(c) ==
    IF c >= 48 /\ c <= 57 THEN c - 48
    ELSE IF c >= 97 /\ c <= 102 THEN c - 87
    ELSE IF c >= 65 /\ c <= 70 THEN c - 55
    ELSE -1

-----------------------------------------------------------------------------
(* SHA-1 (the sha1 crate), abstracted to a 20-byte positional digest *)

RECURSIVE DigestRange(_, _, _, _)
DigestRange(s, lo, hi, k) ==
    IF lo > hi THEN k
    ELSE IF lo = hi THEN ((s[lo] + 1) * (k + 1) + lo) % 251
    ELSE LET mid == (lo + hi) \div 2
         IN  (DigestRange(s, lo, mid, k) * (2 * k + 3)
                + DigestRange(s, mid + 1, hi, k) * (k + 5) + 7) % 251

Sha1(s) ==
    LET n == Len(s)
        d == <<DigestRange(s, 1, n, 1), DigestRange(s, 1, n, 2),
               DigestRange(s, 1, n, 3), DigestRange(s, 1, n, 4)>>
    IN  [k \in 1..20 |-> (d[(k % 4) + 1] * (k + 1) + d[((k + 1) % 4) + 1] + n * k) % 256]

-----------------------------------------------------------------------------
(* index.rs: the staging index and its codec *)

PathMask == 4095

Ok(v) == [tag |-> "ok", val |-> v]
Err(m) == [tag |-> "err", msg |-> m]
Panic(m) == [tag |-> "panic", msg |-> m]

append_u32(v) ==
    <<(v \div 16777216) % 256, (v \div 65536) % 256, (v \div 256) % 256, v % 256>>

\* read_u32 at 0-based pos; the caller has checked pos + 4 <= Len(bytes)
read_u32(bytes, pos) ==
    bytes[pos + 1] * 16777216 + bytes[pos + 2] * 65536 + bytes[pos + 3] * 256 + bytes[pos + 4]

Magic == <<68, 73, 82, 67>>

FixedLen == 10 * 4 + 20 + 2

\* A padding rule that adds nothing to an entry already 8-byte aligned
serialize_item_pad_NoPadWhenAligned(n) == (8 - (n % 8)) % 8

serialize_item_pad(n) == 8 - (n % 8)

serialize_item(item) ==
    LET path_bytes == to_string_lossy(item.path)
        flags == Min(PathMask, Len(path_bytes))
        entry_bytes ==
            append_u32(item.ctime) \o append_u32(item.ctime_nsec)
            \o append_u32(item.mtime) \o append_u32(item.mtime_nsec)
            \o append_u32(item.dev) \o append_u32(item.ino)
            \o append_u32(item.mode) \o append_u32(item.uid)
            \o append_u32(item.gid) \o append_u32(item.size)
            \o item.hash
            \o <<flags \div 256, flags % 256>>
            \o path_bytes
        npad == serialize_item_pad(Len(entry_bytes))
    IN  entry_bytes \o Zeros(npad)

serialize(idx) ==
    LET bytes == Magic \o append_u32(idx.version) \o append_u32(Len(idx.items))
                 \o Concat([i \in 1..Len(idx.items) |-> serialize_item(idx.items[i])])
    IN  bytes \o Sha1(bytes)

\* A padding rule that adds nothing to an entry already 8-byte aligned
deserialize_item_pad_NoPadWhenAligned(item_pos) == (8 - (item_pos % 8)) % 8

deserialize_item_pad(item_pos) == 8 - (item_pos % 8)

\* One pass of the loop of Index::deserialize over item_bytes = &bytes[pos..]
deserialize_item(item_bytes) ==
    IF Len(item_bytes) < FixedLen THEN Panic("range end index out of range")
    ELSE
        LET flags == item_bytes[61] * 256 + item_bytes[62]
            path_len == flags % (PathMask + 1)
        IN  IF FixedLen + path_len > Len(item_bytes) THEN Panic("range end index out of range")
            ELSE
                LET path_bytes == SubSeq(item_bytes, FixedLen + 1, FixedLen + path_len)
                    item_pos == FixedLen + path_len
                    npad == deserialize_item_pad(item_pos)
                IN  [tag |-> "ok",
                     item |-> [ctime |-> read_u32(item_bytes, 0),
                               ctime_nsec |-> read_u32(item_bytes, 4),
                               mtime |-> read_u32(item_bytes, 8),
                               mtime_nsec |-> read_u32(item_bytes, 12),
                               dev |-> read_u32(item_bytes, 16),
                               ino |-> read_u32(item_bytes, 20),
                               mode |-> read_u32(item_bytes, 24),
                               uid |-> read_u32(item_bytes, 28),
                               gid |-> read_u32(item_bytes, 32),
                               size |-> read_u32(item_bytes, 36),
                               hash |-> SubSeq(item_bytes, 41, 60),
                               path |-> to_string_lossy(path_bytes)],
                     item_len |-> item_pos + npad]

RECURSIVE deserialize_items(_, _, _, _)
deserialize_items(bytes, pos, n, items) ==
    IF n = 0 THEN Ok(items)
    ELSE IF pos > Len(bytes) THEN Panic("range start index out of range")
    ELSE LET r == deserialize_item(SubSeq(bytes, pos + 1, Len(bytes)))
         IN  IF r.tag = "panic" THEN r
             ELSE deserialize_items(bytes, pos + r.item_len, n - 1, Append(items, r.item))

deserialize(bytes) ==
    IF Len(bytes) < 4 THEN Panic("range end index 4 out of range")
    ELSE IF ~IsUtf8(SubSeq(bytes, 1, 4)) THEN Err("invalid utf-8 sequence")
    ELSE IF Len(bytes) < 12 THEN Panic("range end index out of range")
    ELSE LET version == read_u32(bytes, 4)
             num_entries == read_u32(bytes, 8)
             r == deserialize_items(bytes, 12, num_entries, <<>>)
         IN  IF r.tag = "ok" THEN Ok([version |-> version, items |-> r.val]) ELSE r

-----------------------------------------------------------------------------
(* objects.rs: the objects, their codec and the object store *)

None == [some |-> FALSE]
Some(v) == [some |-> TRUE, v |-> v]

\* "blob", "tree", "commit", "tag"
BlobName == <<98, 108, 111, 98>>
TreeName == <<116, 114, 101, 101>>
CommitName == <<99, 111, 109, 109, 105, 116>>
TagName == <<116, 97, 103>>

Blob(bytes) == [kind |-> "blob", bytes |-> bytes]
Tree(children) == [kind |-> "tree", children |-> children]
Tag(name) == [kind |-> "tag", name |-> name]
TreeEntry(mode, name, h) == [mode |-> mode, name |-> name, hash |-> h]

type_name(o) ==
    CASE o.kind = "blob" -> BlobName
      [] o.kind = "tree" -> TreeName
      [] o.kind = "commit" -> CommitName
      [] o.kind = "tag" -> TagName

tree_entry_bytes(child) ==
    fmt_octal(child.mode) \o <<32>> \o child.name \o <<0>> \o child.hash

content_bytes(o) ==
    CASE o.kind = "blob" -> o.bytes
      [] o.kind = "tree" ->
            Concat([i \in 1..Len(o.children) |-> tree_entry_bytes(o.children[i])])
      [] o.kind = "commit" -> <<0>>
      [] o.kind = "tag" -> o.name

content_with_header(o) ==
    LET content == content_bytes(o)
    IN  type_name(o) \o <<32>> \o to_string(Len(content)) \o <<0>> \o content

hash(o) == Sha1(content_with_header(o))

\* zlib (the flate2 crate), abstracted to a frame: a two-byte header, the bytes, a check byte
ZHeader == <<120, 1>>
ZCheck(bytes) == DigestRange(bytes, 1, Len(bytes), 1)
Deflate(bytes) == ZHeader \o bytes \o <<ZCheck(bytes)>>
Inflate(file) ==
    IF /\ Len(file) >= 3
       /\ SubSeq(file, 1, 2) = ZHeader
       /\ file[Len(file)] = ZCheck(SubSeq(file, 3, Len(file) - 1))
    THEN Ok(SubSeq(file, 3, Len(file) - 1))
    ELSE Err("corrupt deflate stream")

compress(o) == Deflate(content_with_header(o))

\* objects/<hex[0:2]>/<hex[2:]>
StorePath(h) == LET hash_str == hex_encode(h) IN <<SubSeq(hash_str, 1, 2), SubSeq(hash_str, 3, Len(hash_str))>>

FileExists(st, h) == StorePath(h) \in DOMAIN st.files

PutFile(files, path, bytes) ==
    [x \in (DOMAIN files) \cup {path} |-> IF x = path THEN bytes ELSE files[x]]

\* A file opened for appending instead of being created anew
create_and_write_Append(old, bytes) == old \o bytes

\* File::create truncates the file, write_all then writes the bytes given
create_and_write(old, bytes) == bytes

\* Bytes added at the end of the file whatever the offset of the handle
write_at_Append(file, off, chunk) == file \o chunk

\* One write call of write_all on a handle at offset off: the bytes land at the
\* offset, and a file shorter than the offset is filled with zeros up to it
write_at(file, off, chunk) ==
    LET n == IF Len(file) > off + Len(chunk) THEN Len(file) ELSE off + Len(chunk)
    IN  [i \in 1..n |-> IF i > off /\ i <= off + Len(chunk) THEN chunk[i - off]
                        ELSE IF i <= Len(file) THEN file[i]
                        ELSE 0]

\* A write that reports success and stores nothing
write_Nothing(st, o) == st

\* GitObject::write that fails with an I/O error: at File::create, after create_dir_all
\* has made the directory, or at write_all, after File::create has emptied the file
write_failing(st, o, at) ==
    LET path == StorePath(hash(o))
    IN  [dirs |-> st.dirs \cup {path[1]},
         files |-> IF at = "write_all" THEN PutFile(st.files, path, <<>>) ELSE st.files]

\* GitObject::write, run to completion by one process
write(st, o) ==
    LET path == StorePath(hash(o))
        old == IF path \in DOMAIN st.files THEN st.files[path] ELSE <<>>
    IN  [dirs |-> st.dirs \cup {path[1]},
         files |-> PutFile(st.files, path, create_and_write(old, compress(o)))]

read_object_raw(st, h) ==
    IF Len(h) < 3 THEN Ok(None)
    ELSE IF ~FileExists(st, h) THEN Ok(None)
    ELSE LET buf == Inflate(st.files[StorePath(h)])
         IN  IF buf.tag = "ok" THEN Ok(Some(buf.val)) ELSE buf

\* hex::decode followed by the conversion to [u8; 20]
parse_hash(text) ==
    IF Len(text) % 2 = 1 THEN Err("odd number of digits")
    ELSE IF \E i \in 1..Len(text) : HexVal(text[i]) < 0 THEN Err("invalid character")
    ELSE IF Len(text) # 40 THEN Err("could not convert slice to array")
    ELSE Ok([i \in 1..20 |-> HexVal(text[2 * i - 1]) * 16 + HexVal(text[2 * i])])

\* char::is_whitespace, on ASCII
is_whitespace(c) == c \in {9, 10, 11, 12, 13, 32}

Get(tags, key) == IF key \in DOMAIN tags THEN Some(tags[key]) ELSE None
Insert(tags, key, v) == [x \in (DOMAIN tags) \cup {key} |-> IF x = key THEN v ELSE tags[x]]

\* A message arm that takes a new line for the end of the message
in_message_UntilNewLine(st, c) ==
    IF c = 10 THEN [st EXCEPT !.state = "BeforeKey"] ELSE [st EXCEPT !.buffer = Append(@, c)]

\* The arm of the match for ParseState::InMessage
in_message(st, c) == [st EXCEPT !.buffer = Append(@, c)]

\* One turn of the loop of parse_commit: the match on state and character.  st holds
\* the loop's variables, or the error it bailed with
parse_commit_step(st, c) ==
    IF st.tag # "ok" THEN st
    ELSE CASE st.state = "BeforeKey" ->
                IF c = 10 THEN [st EXCEPT !.state = "InMessage", !.buffer = <<>>]
                ELSE [st EXCEPT !.state = "InKey", !.buffer = <<c>>]
           [] st.state = "InKey" ->
                IF c = 32 THEN [st EXCEPT !.state = "BeforeValue", !.current_key = st.buffer]
                ELSE [st EXCEPT !.buffer = Append(@, c)]
           [] st.state = "BeforeValue" ->
                IF c = 10 THEN Err("unexpected new line in commit text")
                ELSE IF is_whitespace(c) THEN st
                ELSE [st EXCEPT !.state = "InValue", !.buffer = <<c>>]
           [] st.state = "InValue" ->
                IF c = 10
                THEN [st EXCEPT !.state = "BeforeKey",
                                !.tags = Insert(@, st.current_key, st.buffer)]
                ELSE [st EXCEPT !.buffer = Append(@, c)]
           [] st.state = "InMessage" -> in_message(st, c)

\* The loop of parse_commit over the characters lo..hi of the text, split in halves
RECURSIVE parse_commit_loop(_, _, _, _)
parse_commit_loop(text, st, lo, hi) ==
    IF lo > hi THEN st
    ELSE IF lo = hi THEN parse_commit_step(st, text[lo])
    ELSE LET mid == (lo + hi) \div 2
             left == parse_commit_loop(text, st, lo, mid)
         IN  IF left.tag # "ok" THEN left ELSE parse_commit_loop(text, left, mid + 1, hi)

\* "parent", "tree", "author", "committer", "date"
ParentKey == <<112, 97, 114, 101, 110, 116>>
TreeKey == <<116, 114, 101, 101>>
AuthorKey == <<97, 117, 116, 104, 111, 114>>
CommitterKey == <<99, 111, 109, 109, 105, 116, 116, 101, 114>>
DateKey == <<100, 97, 116, 101>>

parse_commit(commit_text) ==
    LET r == parse_commit_loop(commit_text,
                               [tag |-> "ok", state |-> "InKey", buffer |-> <<>>,
                                current_key |-> <<>>, tags |-> <<>>],
                               1, Len(commit_text))
    IN  IF r.tag # "ok" THEN r
        ELSE
            LET tags == r.tags
                message == r.buffer
                parent == IF ParentKey \in DOMAIN tags THEN parse_hash(tags[ParentKey]) ELSE Ok(<<>>)
            IN  IF parent.tag # "ok" THEN parent
                ELSE IF TreeKey \notin DOMAIN tags THEN Panic("called Option::unwrap() on a None value")
                ELSE IF parse_hash(tags[TreeKey]).tag # "ok" THEN parse_hash(tags[TreeKey])
                ELSE IF AuthorKey \notin DOMAIN tags THEN Panic("called Option::unwrap() on a None value")
                ELSE IF CommitterKey \notin DOMAIN tags THEN Panic("called Option::unwrap() on a None value")
                ELSE Ok([kind |-> "commit",
                         tree |-> parse_hash(tags[TreeKey]).val,
                         author |-> tags[AuthorKey],
                         committer |-> tags[CommitterKey],
                         date |-> Get(tags, DateKey),
                         parent |-> IF ParentKey \in DOMAIN tags THEN Some(parent.val) ELSE None,
                         message |-> message])

\* One record of a tree, read from remainder = &bytes[pos..]
parse_tree_node(remainder) ==
    LET mode_end == position(remainder, 32)
        path_end == position(remainder, 0)
    IN  IF mode_end < 0 THEN Err("error parsing tree: missing space terminator for file mode")
        ELSE IF mode_end # 4 THEN Panic("called Result::unwrap() on an Err value: TryFromSliceError")
        ELSE IF path_end < 0 THEN Err("error parsing tree: missing NULL terminator for path")
        ELSE IF mode_end + 1 > path_end THEN Panic("slice index starts after its end")
        ELSE IF ~IsUtf8(SubSeq(remainder, mode_end + 2, path_end))
             THEN Err("error parsing tree: non-UTF8 character in path")
        ELSE IF path_end + 21 > Len(remainder) THEN Panic("range end index out of range")
        ELSE [tag |-> "ok",
              node |-> TreeEntry(read_u32(remainder, 0),
                                 SubSeq(remainder, mode_end + 2, path_end),
                                 SubSeq(remainder, path_end + 2, path_end + 21)),
              len |-> path_end + 21]

RECURSIVE parse_tree_from(_, _, _)
parse_tree_from(bytes, pos, nodes) ==
    IF pos >= Len(bytes) THEN Ok(Tree(nodes))
    ELSE LET r == parse_tree_node(SubSeq(bytes, pos + 1, Len(bytes)))
         IN  IF r.tag # "ok" THEN r
             ELSE parse_tree_from(bytes, pos + r.len, Append(nodes, r.node))

parse_tree(bytes) == parse_tree_from(bytes, 0, <<>>)

\* "TODO: Read name"
TodoName == <<84, 79, 68, 79, 58, 32, 82, 101, 97, 100, 32, 110, 97, 109, 101>>

\* The Ok(Some(bytes)) arm of search_object
\* A size field that may run to the end of the bytes
size_field_end_OrEnd(after) ==
    IF position(after, 0) < 0 THEN Len(after) ELSE position(after, 0)

\* bytes[type_end+1..].iter().position(|x| x == &0)
size_field_end(after) == position(after, 0)

parse_object(bytes) ==
    LET type_end == position(bytes, 32)
    IN  IF type_end < 0 THEN Err("error parsing object: type field not terminated")
        ELSE
            LET after == SubSeq(bytes, type_end + 2, Len(bytes))
                size_rel == size_field_end(after)
            IN  IF size_rel < 0 THEN Err("error parsing object: size field not terminated")
                ELSE
                    LET file_size_end == (type_end + 1) + size_rel
                        object_type == SubSeq(bytes, 1, type_end)
                        contents == SubSeq(bytes, file_size_end + 2, Len(bytes))
                    IN  IF object_type = BlobName THEN Ok(Some(Blob(contents)))
                        ELSE IF object_type = TreeName THEN
                            (LET t == parse_tree(contents)
                             IN  IF t.tag = "ok" THEN Ok(Some(t.val)) ELSE t)
                        ELSE IF object_type = TagName THEN Ok(Some(Tag(TodoName)))
                        ELSE IF object_type = CommitName THEN
                            (LET c == parse_commit(to_string_lossy(contents))
                             IN  IF c.tag = "ok" THEN Ok(Some(c.val)) ELSE c)
                        ELSE Err("unrecognised object type")

search_object(st, h) ==
    LET raw == read_object_raw(st, h)
    IN  IF raw.tag = "ok" /\ raw.val.some THEN parse_object(raw.val.v)
        ELSE IF raw.tag = "ok" THEN Ok(None)
        ELSE raw

\* A lookup that answers an absent object with an empty blob
get_object_OrEmpty(st, h) ==
    LET found == search_object(st, h)
    IN  IF found.tag = "ok" /\ found.val.some THEN Ok(found.val.v)
        ELSE IF found.tag = "ok" THEN Ok(Blob(<<>>))
        ELSE found

get_object(st, h) ==
    LET found == search_object(st, h)
    IN  IF found.tag = "ok" /\ found.val.some THEN Ok(found.val.v)
        ELSE IF found.tag = "ok" THEN Err("Object not found in store")
        ELSE found

-----------------------------------------------------------------------------
(* add.rs: staging *)

\* 1 if right is greater, -1 if left is greater, 0 if equal
mem_cmp(left, right) ==
    LET min_len == Min(Len(left), Len(right))
    IN  IF \E i \in 1..min_len : left[i] # right[i]
        THEN LET i == CHOOSE i \in 1..min_len :
                        left[i] # right[i] /\ \A j \in 1..(i - 1) : left[j] = right[j]
             IN  IF left[i] < right[i] THEN 1 ELSE -1
        ELSE IF Len(left) > Len(right) THEN -1
        ELSE IF Len(left) < Len(right) THEN 1
        ELSE 0

\* index.items.retain(|x| x.path != item.path)
retain(items, item) ==
    LET keep(x) == x.path # item.path
    IN  SelectSeq(items, keep)

\* Whether the loop of cmd_add inserts before the i-th (1-based) of the items
InsertsBefore(items, item, i) == mem_cmp(to_string_lossy(item.path), to_string_lossy(items[i].path)) > 0

\* The loop of cmd_add and the push that follows it
insert(items, item) ==
    IF \E i \in 1..Len(items) : InsertsBefore(items, item, i)
    THEN LET i == CHOOSE i \in 1..Len(items) :
                    InsertsBefore(items, item, i) /\ \A j \in 1..(i - 1) : ~InsertsBefore(items, item, j)
         IN  SubSeq(items, 1, i - 1) \o <<item>> \o SubSeq(items, i, Len(items))
    ELSE Append(items, item)

\* cmd_add from the read of the index file on: what it returns and the index file it leaves
upsert_file(file, item) ==
    IF file.exists
    THEN LET r == deserialize(file.bytes)
         IN  IF r.tag # "ok" THEN [out |-> r, file |-> file]
             ELSE [out |-> Ok(<<>>),
                   file |-> [exists |-> TRUE,
                             bytes |-> serialize([version |-> r.val.version,
                                                  items |-> insert(retain(r.val.items, item), item)])]]
    ELSE [out |-> Ok(<<>>),
          file |-> [exists |-> TRUE, bytes |-> serialize([version |-> 2, items |-> <<item>>])]]

\* An upsert that drops every entry it read
read_and_upsert_Alone(file, item) == Ok([version |-> 2, items |-> <<item>>])

\* The first half of that: the Index cmd_add holds in memory before it serializes it
read_and_upsert(file, item) ==
    IF file.exists
    THEN LET r == deserialize(file.bytes)
         IN  IF r.tag # "ok" THEN r
             ELSE Ok([version |-> r.val.version, items |-> insert(retain(r.val.items, item), item)])
    ELSE Ok([version |-> 2, items |-> <<item>>])

-----------------------------------------------------------------------------
(* write_tree.rs: the tree builder *)

\* The mode write_subtree gives a directory entry
DirMode == 40000

Slash == 47

\* Path::components of a relative path: its parts between separators
RECURSIVE components(_)
components(path) ==
    IF path = <<>> THEN <<>>
    ELSE LET cut == position(path, Slash)
         IN  IF cut < 0 THEN <<path>>
             ELSE IF cut = 0 THEN components(Tail(path))
             ELSE <<SubSeq(path, 1, cut)>> \o components(SubSeq(path, cut + 2, Len(path)))

\* PathBuf::from_iter of components
RECURSIVE from_iter(_)
from_iter(comps) ==
    IF comps = <<>> THEN <<>>
    ELSE IF Len(comps) = 1 THEN comps[1]
    ELSE comps[1] \o <<Slash>> \o from_iter(Tail(comps))

take(comps, n) == SubSeq(comps, 1, Min(n, Len(comps)))

\* Path::starts_with: base's components are a prefix of path's
starts_with(path, base) ==
    LET pc == components(path)
        bc == components(base)
    IN  Len(bc) <= Len(pc) /\ SubSeq(pc, 1, Len(bc)) = bc

\* first.path.is_file(), which asks the file system
is_file(path, disk) == path \in disk

subtree_path_of(first, depth) == from_iter(take(components(first.path), depth + 1))

\* index[pos..].iter().position(|x| !x.path.starts_with(&subtree_path)): a position in the
\* slice that starts at pos, or -1 for None
subtree_end_of(items, pos, subtree_path) ==
    LET rest == SubSeq(items, pos + 1, Len(items))
    IN  IF \E i \in 1..Len(rest) : ~starts_with(rest[i].path, subtree_path)
        THEN (CHOOSE i \in 1..Len(rest) :
                /\ ~starts_with(rest[i].path, subtree_path)
                /\ \A j \in 1..(i - 1) : starts_with(rest[j].path, subtree_path)) - 1
        ELSE -1

Frame(depth, items) ==
    [depth |-> depth, items |-> items, pos |-> 0, children |-> <<>>,
     seen |-> [i \in 1..Len(items) |-> 0],
     call |-> [active |-> FALSE, path |-> <<>>, end |-> -1, lo |-> 0, hi |-> 0]]

Top == stack[Len(stack)]

SetTop(f) == [stack EXCEPT ![Len(stack)] = f]

-----------------------------------------------------------------------------
(* checkout.rs *)

Dir == [kind |-> "dir"]
File(bytes) == [kind |-> "file", bytes |-> bytes]

PutNode(fs, path, node) ==
    [x \in (DOMAIN fs) \cup {path} |-> IF x = path THEN node ELSE fs[x]]

IsDir(fs, path) == path \in DOMAIN fs /\ fs[path].kind = "dir"

\* A directory listing that is always empty
read_dir_Nothing(fs, dir) == {}

\* fs::read_dir: the entries directly below dir
read_dir(fs, dir) ==
    {x \in DOMAIN fs : Len(x) = Len(dir) + 1 /\ SubSeq(x, 1, Len(dir)) = dir}

\* checkout_tree: the match on the object of one leaf.  A leaf whose name holds a
\* separator names a file in a directory that the empty destination does not have
checkout_leaf(fs, leaf, got, destination) ==
    IF got.tag # "ok" THEN [out |-> got, fsys |-> fs]
    ELSE IF got.val.kind = "blob"
    THEN IF position(leaf.name, 47) >= 0
         THEN [out |-> Err("IOError: No such file or directory"), fsys |-> fs]
         ELSE [out |-> Ok(<<>>),
               fsys |-> PutNode(fs, Append(destination, leaf.name), File(got.val.bytes))]
    ELSE IF got.val.kind = "tree" THEN [out |-> Ok(<<>>), fsys |-> fs]
    ELSE [out |-> Err("Unexpected object found in tree. Expecting only blobs or trees"), fsys |-> fs]

\* checkout_tree: the loop over the leaves, which an error ends
RECURSIVE checkout_tree(_, _, _, _)
RECURSIVE checkout_next(_, _, _, _)
checkout_next(done, st, leaves, destination) ==
    IF done.out.tag # "ok" THEN done ELSE checkout_tree(done.fsys, st, leaves, destination)

checkout_tree(fs, st, leaves, destination) ==
    IF leaves = <<>> THEN [out |-> Ok(<<>>), fsys |-> fs]
    ELSE checkout_next(checkout_leaf(fs, Head(leaves), get_object(st, Head(leaves).hash), destination),
                       st, Tail(leaves), destination)

\* checkout_commit: the match on the object the commit names as its tree
checkout_commit_tree(fs, st, got, destination) ==
    IF got.tag # "ok" THEN [out |-> got, fsys |-> fs]
    ELSE IF got.val.kind = "tree" THEN checkout_tree(fs, st, got.val.children, destination)
    ELSE [out |-> Err("Commit references a tree that is not actually a tree"), fsys |-> fs]

checkout_commit(fs, st, commit, destination) ==
    checkout_commit_tree(fs, st, get_object(st, commit.tree), destination)

\* cmd_checkout: the match on what search_object found
checkout_found(fs, st, found, destination) ==
    IF found.tag # "ok" THEN [out |-> found, fsys |-> fs]
    ELSE IF ~found.val.some THEN [out |-> Err("Commit object does not exist"), fsys |-> fs]
    ELSE IF found.val.v.kind = "commit" THEN checkout_commit(fs, st, found.val.v, destination)
    ELSE [out |-> Err("Requested object is not a commit"), fsys |-> fs]

\* cmd_checkout: from parse_hash on
checkout_hash(fs, st, h, destination) ==
    IF h.tag # "ok" THEN [out |-> h, fsys |-> fs]
    ELSE checkout_found(fs, st, search_object(st, h.val), destination)

\* cmd_checkout; in_repo says whether repo_find finds a repository above the working
\* directory
cmd_checkout(fs, st, commit, directory, in_repo) ==
    IF ~IsDir(fs, directory) THEN [out |-> Err("IOError: read_dir"), fsys |-> fs]
    ELSE IF Cardinality(read_dir(fs, directory)) > 0
    THEN [out |-> Err("Destination directory is not empty!"), fsys |-> fs]
    ELSE IF ~in_repo THEN [out |-> Panic("fatal: not a grit repository"), fsys |-> fs]
    ELSE checkout_hash(fs, st, parse_hash(commit), directory)

-----------------------------------------------------------------------------
(* init.rs and lib.rs: cmd_init.  Paths are sequences of component names. *)

\* fs::create_dir_all: every missing ancestor is created on the way; a file in the
\* way is an error, and what was created before it stays
RECURSIVE create_dir_from(_, _, _)
create_dir_from(fs, path, n) ==
    IF n > Len(path) THEN [out |-> Ok(<<>>), fsys |-> fs]
    ELSE IF SubSeq(path, 1, n) \in DOMAIN fs /\ fs[SubSeq(path, 1, n)].kind = "file"
    THEN [out |-> Err(IF n = Len(path) THEN "IOError: File exists" ELSE "IOError: Not a directory"),
          fsys |-> fs]
    ELSE create_dir_from(PutNode(fs, SubSeq(path, 1, n), Dir), path, n + 1)

create_dir_all(fs, path) == create_dir_from(fs, path, 1)

\* fs::write: the directory of the file must exist, and the path must not be one
fs_write(fs, path, bytes) ==
    IF ~IsDir(fs, SubSeq(path, 1, Len(path) - 1))
    THEN [out |-> Err("IOError: No such file or directory"), fsys |-> fs]
    ELSE IF IsDir(fs, path) THEN [out |-> Err("IOError: Is a directory"), fsys |-> fs]
    ELSE [out |-> Ok(<<>>), fsys |-> PutNode(fs, path, File(bytes))]

\* One statement of cmd_init that ends in "?"
MkDir(path) == [kind |-> "dir", path |-> path]
MkFile(path, bytes) == [kind |-> "file", path |-> path, bytes |-> bytes]

init_step(fs, gitdir, stmt) ==
    IF stmt.kind = "dir" THEN create_dir_all(fs, gitdir \o stmt.path)
    ELSE fs_write(fs, gitdir \o stmt.path, stmt.bytes)

\* The statements in order; the first error returns, and what is written stays
RECURSIVE init_run(_, _, _)
init_next(done, gitdir, stmts) ==
    IF done.out.tag # "ok" THEN done ELSE init_run(done.fsys, gitdir, stmts)

init_run(fs, gitdir, stmts) ==
    IF stmts = <<>> THEN [out |-> Ok(<<>>), fsys |-> fs]
    ELSE init_next(init_step(fs, gitdir, Head(stmts)), gitdir, Tail(stmts))

\* The name of the repository directory
git_dir_name(git_mode) == IF git_mode THEN ".git" ELSE ".grit"

\* path.map(..).unwrap_or(env::current_dir().unwrap())
init_root(path, cwd) == IF path.some THEN path.v ELSE cwd

\* lib.rs cmd_init, which leaves its options unused
cmd_init(fs, path, cwd, git_mode) ==
    init_run(fs, Append(init_root(path, cwd), ".grit"),
             << MkDir(<<"branches">>), MkDir(<<"hooks">>), MkDir(<<"index">>), MkDir(<<"info">>),
                MkDir(<<"logs">>), MkDir(<<"objects">>), MkDir(<<"refs", "heads">>),
                MkDir(<<"refs", "tags">>),
                MkFile(<<"config">>, "[core]"),
                MkFile(<<"HEAD">>, "ref: refs/heads/master") >>)

\* init.rs cmd_init
init_cmd_init(fs, path, cwd, git_mode) ==
    init_run(fs, Append(init_root(path, cwd), git_dir_name(git_mode)),
             << MkDir(<<"branches">>), MkDir(<<"hooks">>), MkDir(<<"info">>),
                MkDir(<<"objects", "info">>), MkDir(<<"objects", "pack">>),
                MkDir(<<"refs", "heads">>), MkDir(<<"refs", "tags">>),
                MkFile(<<"config">>, "[core]"),
                MkFile(<<"description">>, "Unnamed repository"),
                MkFile(<<"info", "exclude">>, "# git ls-files"),
                MkFile(<<"HEAD">>, "ref: refs/heads/master\n") >>)

-----------------------------------------------------------------------------
(* hash_object.rs *)

\* cmd_hash_object: what it returns, the hash it prints and the store it leaves.  The
\* hash is taken over the header and the content; the file holds the compressed content
cmd_hash_object(st, file_bytes, type, do_write, in_repo) ==
    LET bytes == type \o <<32>> \o to_string(Len(file_bytes)) \o <<0>> \o file_bytes
        hash_bytes == Sha1(bytes)
        hash_str == hex_encode(hash_bytes)
        path == StorePath(hash_bytes)
        old == IF path \in DOMAIN st.files THEN st.files[path] ELSE <<>>
    IN  IF ~do_write THEN [out |-> Ok(<<>>), printed |-> hash_str, store |-> st]
        ELSE IF ~in_repo
        THEN [out |-> Panic("fatal: not a grit repository"), printed |-> hash_str, store |-> st]
        ELSE [out |-> Ok(<<>>), printed |-> hash_str,
              store |-> [dirs |-> st.dirs \cup {path[1]},
                         files |-> PutFile(st.files, path,
                                           create_and_write(old, Deflate(file_bytes)))]]

-----------------------------------------------------------------------------
(* commit.rs *)

\* read_index: the index of the file, or an empty one where there is no file
read_index(file) ==
    IF file.exists THEN deserialize(file.bytes) ELSE Ok([version |-> 2, items |-> <<>>])

\* An index that is never taken for empty
nothing_staged_Never(idx) == FALSE

\* index.items.len() == 0
nothing_staged(idx) == Len(idx.items) = 0

-----------------------------------------------------------------------------
(* Values the model draws its inputs from *)

\* S_IFREG | 0o644
RegularMode == 32768 + 420

\* The ten stat fields libc::stat reports for a file (add.rs), for the k-th file state.
StatItem(k, path, h, size) ==
    [ctime |-> k, ctime_nsec |-> 256 * k + 1, mtime |-> 65536 * k + 2,
     mtime_nsec |-> 16777216 * k + 3, dev |-> k + 4, ino |-> 2147483647 - k,
     mode |-> RegularMode, uid |-> 1000 + k, gid |-> 100 + k, size |-> size,
     hash |-> h, path |-> path]

LongPath == [i \in 1..PathMask |-> 97]

\* "", "a", "a/b", a path of 0xFFF bytes, "ab" (62 + 2 is a multiple of 8) and "\u{e9}",
\* in ascending byte order
CodecPaths == <<<<>>, <<97>>, <<97, 47, 98>>, LongPath, <<97, 98>>, <<195, 169>>>>

SortedPathSets(n) ==
    {S \in SUBSET (1..Len(CodecPaths)) : Cardinality(S) <= n}

RECURSIVE SetToSortedSeq(_)
SetToSortedSeq(S) ==
    IF S = {} THEN <<>>
    ELSE LET m == CHOOSE x \in S : \A y \in S : x <= y
         IN  <<m>> \o SetToSortedSeq(S \ {m})

HashOf(k) == [i \in 1..20 |-> (k * 16 + i) % 256]

\* The well-formed indexes: version 2 or 3, paths valid UTF-8, ascending and distinct.
WellFormedIndexes ==
    {[version |-> v,
      items |-> [i \in 1..Len(ps) |->
                    StatItem(k + i, CodecPaths[ps[i]], HashOf(k + i), k + i + 10)]] :
        v \in {2, 3},
        ps \in {SetToSortedSeq(S) : S \in SortedPathSets(MaxItems)},
        k \in 1..MaxStat}

NoIndex == [version |-> 0, items |-> <<>>]
NoFile == [exists |-> FALSE, bytes |-> <<>>]
NoStore == [dirs |-> {}, files |-> <<>>]
NoOp == [name |-> "none", src |-> NoIndex, pristine |-> FALSE, out |-> Ok(<<>>)]

-----------------------------------------------------------------------------
(* The index codec as a machine: the index file is written from an in-memory *)
(* Index (fs::write of Index::serialize), damaged on disk, and read back     *)
(* (Index::deserialize of fs::read).                                         *)

NoRet == [tag |-> "none"]

NoProcs == <<>>
NoDisk == <<>>

TreeIdle == index = <<>> /\ onDisk = {} /\ stack = <<>> /\ ret = NoRet

InitIndex ==
    /\ indexFile = NoFile
    /\ store = NoStore
    /\ op = NoOp
    /\ TreeIdle
    /\ fsys = NoDisk
    /\ procs = NoProcs

IdxWrite(x) ==
    /\ ~indexFile.exists
    /\ indexFile' = [exists |-> TRUE, bytes |-> serialize(x)]
    /\ op' = [name |-> "serialize", src |-> x, pristine |-> TRUE, cut |-> FALSE, out |-> Ok(<<>>)]
    /\ UNCHANGED <<store, index, onDisk, stack, ret, procs, fsys>>

IdxRead ==
    /\ indexFile.exists
    /\ op.name # "deserialize"
    /\ op' = [name |-> "deserialize", src |-> op.src, pristine |-> op.pristine, cut |-> op.cut,
              out |-> deserialize(indexFile.bytes)]
    /\ UNCHANGED <<indexFile, store, index, onDisk, stack, ret, procs, fsys>>

\* Signatures an index file may carry instead of "DIRC": "XIRC", "dirc", "DIR\0", one
\* that is not UTF-8
OtherMagics == {<<88, 73, 82, 67>>, <<100, 105, 114, 99>>, <<68, 73, 82, 0>>, <<68, 73, 82, 255>>}

IdxSetMagic(m) ==
    /\ indexFile.exists
    /\ op.name = "serialize"
    /\ indexFile' = [indexFile EXCEPT !.bytes = m \o SubSeq(indexFile.bytes, 5, Len(indexFile.bytes))]
    /\ op' = [name |-> "damage", src |-> op.src, pristine |-> FALSE, cut |-> FALSE, out |-> Ok(<<>>)]
    /\ UNCHANGED <<store, index, onDisk, stack, ret, procs, fsys>>

\* Lengths an index file is cut to: inside the signature, inside the header, after the
\* header, and inside the fixed fields, the path and the padding of the first entry
CutPoints == {0, 3, 11, 12, 30, 74, 75}

\* Where the entries of a written index file end and its checksum begins
EntriesEnd(bytes) == Len(bytes) - 20

\* The index file loses its tail, from some byte before the end of its entries
IdxTruncate(keep) ==
    /\ indexFile.exists
    /\ op.name = "serialize"
    /\ keep < EntriesEnd(indexFile.bytes)
    /\ indexFile' = [indexFile EXCEPT !.bytes = SubSeq(indexFile.bytes, 1, keep)]
    /\ op' = [name |-> "damage", src |-> op.src, pristine |-> FALSE, cut |-> TRUE, out |-> Ok(<<>>)]
    /\ UNCHANGED <<store, index, onDisk, stack, ret, procs, fsys>>

NextIndex ==
    \/ \E x \in WellFormedIndexes : IdxWrite(x)
    \/ IdxRead
    \/ \E m \in OtherMagics : IdxSetMagic(m)
    \/ \E keep \in CutPoints : IdxTruncate(keep)

SpecIndex == InitIndex /\ [][NextIndex]_vars

(* C2: an index file written from a well-formed Index and read back yields that
   Index field for field: deserialize(serialize(x)) = x. *)
C2_RoundTrip ==
    (op.name = "deserialize" /\ op.pristine) => op.out = Ok(op.src)

C2_Witness ==
    /\ op.name = "deserialize" /\ op.pristine
    /\ Len(op.src.items) = MaxItems
    /\ \E i \in 1..Len(op.src.items) : Len(op.src.items[i].path) = PathMask
    /\ op.out.tag = "ok"

(* C10: Index::deserialize returns an error for every input whose first four bytes
   are not "DIRC", and never an Index. *)
C10_BadMagicRejected ==
    (op.name = "deserialize" /\ Len(indexFile.bytes) >= 4 /\ SubSeq(indexFile.bytes, 1, 4) # Magic)
        => op.out.tag = "err"

(* C11: Index::deserialize returns an error value, and does not panic, for an index
   file cut short: inside its 12 header bytes, before the entries its count announces,
   or inside the fixed fields, the path or the padding of an entry. *)
C11_TruncatedIsError ==
    (op.name = "deserialize" /\ op.cut) => op.out.tag = "err"

-----------------------------------------------------------------------------
(* The object store as a machine: objects are written, and hashes looked up *)
(* with search_object and get_object.  The store starts empty or holding    *)
(* one file the program did not write through GitObject::write.             *)

MaxWrites == 1

Commit(message) ==
    [kind |-> "commit", tree |-> HashOf(2), author |-> <<65>>, committer |-> <<67>>,
     date |-> None, parent |-> None, message |-> message]

\* Blobs "", "hi" and "a b"; the empty tree and a tree of one file "a"; two commits that
\* differ in their message; the tag "v1"
Objects ==
    {Blob(<<>>), Blob(<<104, 105>>), Blob(<<97, 32, 98>>),
     Tree(<<>>), Tree(<<TreeEntry(RegularMode, <<97>>, HashOf(1))>>),
     Commit(<<109, 49>>), Commit(<<109, 50>>),
     Tag(<<118, 49>>)}

\* Files found at an object path: empty, not a zlib stream, and streams that inflate to
\* "", "blob", "blob 2", "blob 2\0hi", "junk 1\0x", "a b" and "commit 1\0\0"
RawFiles ==
    {<<>>, <<1, 2, 3>>, Deflate(<<>>), Deflate(<<98, 108, 111, 98>>), Deflate(<<98, 108, 111, 98, 32, 50>>),
     Deflate(<<98, 108, 111, 98, 32, 50, 0, 104, 105>>), Deflate(<<106, 117, 110, 107, 32, 49, 0, 120>>), Deflate(<<97, 32, 98>>), Deflate(<<99, 111, 109, 109, 105, 116, 32, 49, 0, 0>>)}

RawHash == HashOf(7)
MissingHash == HashOf(9)
ProbeHashes == {hash(o) : o \in Objects} \cup {RawHash, MissingHash}

InitStore ==
    /\ indexFile = NoFile
    /\ \/ store = NoStore
       \/ \E raw \in RawFiles :
            store = [dirs |-> {StorePath(RawHash)[1]},
                     files |-> PutFile(<<>>, StorePath(RawHash), raw)]
    /\ op = [name |-> "none"]
    /\ TreeIdle
    /\ fsys = NoDisk
    /\ procs = NoProcs

StoreWrite(o) ==
    /\ Cardinality(DOMAIN store.files) < MaxWrites + 1
    /\ store' = write(store, o)
    /\ op' = [name |-> "write", obj |-> o, hash |-> hash(o), pre |-> store, out |-> Ok(<<>>)]
    /\ UNCHANGED <<indexFile, index, onDisk, stack, ret, procs, fsys>>

StoreSearch(h) ==
    /\ op.name # "search"
    /\ op' = [name |-> "search", hash |-> h, search |-> search_object(store, h),
              wrote |-> IF op.name = "write" /\ op.hash = h THEN Some(op.obj) ELSE None]
    /\ UNCHANGED <<indexFile, store, index, onDisk, stack, ret, procs, fsys>>

StoreGet(h) ==
    /\ op.name = "search" /\ op.hash = h
    /\ op' = [name |-> "get", hash |-> h, search |-> op.search, get |-> get_object(store, h)]
    /\ UNCHANGED <<indexFile, store, index, onDisk, stack, ret, procs, fsys>>

NextStore ==
    \/ \E o \in Objects : StoreWrite(o)
    \/ \E h \in ProbeHashes : StoreSearch(h)
    \/ \E h \in ProbeHashes : StoreGet(h)

SpecStore == InitStore /\ [][NextStore]_vars

(* C3: write(object) followed by search_object on object.hash() returns Some object of
   the same kind whose content bytes equal those of the object written. *)
C3_StoreRoundTrip ==
    (op.name = "search" /\ op.wrote.some)
        => /\ op.search.tag = "ok"
           /\ op.search.val.some
           /\ op.search.val.v.kind = op.wrote.v.kind
           /\ content_bytes(op.search.val.v) = content_bytes(op.wrote.v)

(* C4: objects with identical type name and content bytes have the same hash and the
   same store path, and writing such an object where one is already stored leaves the
   store exactly as it was. *)
C4_WriteIdempotent ==
    op.name = "write"
        => /\ \A o \in Objects :
                (type_name(o) = type_name(op.obj) /\ content_bytes(o) = content_bytes(op.obj))
                    => /\ hash(o) = op.hash
                       /\ StorePath(hash(o)) = StorePath(op.hash)
                       /\ FileExists(store, hash(o))
                       /\ store.files[StorePath(hash(o))] = compress(o)
           /\ (FileExists(op.pre, op.hash) /\ op.pre.files[StorePath(op.hash)] = compress(op.obj))
                    => store = op.pre

C4_Witness ==
    /\ op.name = "write"
    /\ FileExists(op.pre, op.hash)
    /\ op.pre.files[StorePath(op.hash)] = compress(op.obj)
    /\ \E o \in Objects : o # op.obj /\ hash(o) = op.hash

(* C5: search_object returns Ok(None) exactly when no file exists at the path derived
   from the hash, and get_object returns an error then (it also returns one when the
   file exists and search_object fails on it); when search_object returns Ok(Some(x))
   get_object returns Ok(x), and when it returns an error get_object returns that
   error. *)
C5_SearchAndGet ==
    /\ op.name = "search" => ((op.search = Ok(None)) <=> ~FileExists(store, op.hash))
    /\ op.name = "get" =>
        /\ (op.search = Ok(None)) => op.get.tag = "err"
        /\ (op.search.tag = "ok" /\ op.search.val.some) => op.get = Ok(op.search.val.v)
        /\ op.search.tag = "err" => op.get = op.search

\* C5 with its second clause read as an equivalence: get_object returns an error exactly
\* when no file exists at the path
C5_GetErrorsOnlyWhenAbsent ==
    op.name = "get" => ((op.get.tag = "err") <=> ~FileExists(store, op.hash))

C5_Witness ==
    /\ op.name = "get"
    /\ op.search = Ok(None)
    /\ op.get.tag = "err"
    /\ DOMAIN store.files # {}

Malformed(file) ==
    \/ Inflate(file).tag # "ok"
    \/ /\ Inflate(file).tag = "ok"
       /\ LET bytes == Inflate(file).val
              sp == position(bytes, 32)
          IN  \/ sp < 0
              \/ position(SubSeq(bytes, sp + 2, Len(bytes)), 0) < 0

(* C6: when a file exists at the path derived from the hash and it fails to inflate,
   or its inflated bytes hold no space, or no NUL after the first space, search_object
   returns an error value: no panic, not Ok(None), no object. *)
C6_MalformedIsError ==
    (op.name = "search" /\ FileExists(store, op.hash) /\ Malformed(store.files[StorePath(op.hash)]))
        => op.search.tag = "err"

C6_Witness ==
    /\ op.name = "search"
    /\ FileExists(store, op.hash)
    /\ Inflate(store.files[StorePath(op.hash)]).tag = "ok"
    /\ position(Inflate(store.files[StorePath(op.hash)]).val, 32) >= 0
    /\ Malformed(store.files[StorePath(op.hash)])
    /\ op.search.tag = "err"

-----------------------------------------------------------------------------
(* The repository as a machine: one process at a time runs a command to its end *)

MaxAdds == 3

\* Paths rebase_path can return: "a", "a/b", "ab", and a file whose name is the single
\* byte 0xFF, which is not UTF-8 (canonicalize returns it for a symbolic link to the
\* file, or for a file below a directory of that name that is the working directory)
AddPaths == {<<97>>, <<97, 47, 98>>, <<97, 98>>, <<255>>}

\* The bytes of the file in its k-th state
FileBytes(k) == <<104, 48 + k>>

Init ==
    /\ indexFile = NoFile
    /\ store = NoStore
    /\ op = [name |-> "none", n |-> 0]
    /\ TreeIdle
    /\ fsys = NoDisk
    /\ procs = NoProcs

\* cmd_add of a path inside the repository whose file is in its k-th state; fault names
\* the step that fails for a reason outside the program, if any: the path is outside
\* the repository, the file cannot be read, blob.write fails at File::create or at
\* write_all, or the fs::write of the index fails after it has emptied the file
CmdAdd(path, k, fault) ==
    /\ op.n < MaxAdds
    /\ LET blob == Blob(FileBytes(k))
           item == StatItem(k, path, hash(blob), Len(FileBytes(k)))
           r == upsert_file(indexFile, item)
           ran == [name |-> "add", n |-> op.n + 1, path |-> path, fault |-> fault,
                   file |-> indexFile, store |-> store, blob |-> blob]
       IN  IF fault = "outside"
           THEN /\ op' = ran @@ [out |-> Err("is outside repository")]
                /\ UNCHANGED <<indexFile, store>>
           ELSE IF fault = "unreadable"
           THEN /\ op' = ran @@ [out |-> Err("io error")]
                /\ UNCHANGED <<indexFile, store>>
           ELSE IF fault \in {"File::create", "write_all"}
           THEN /\ op' = ran @@ [out |-> Err("io error")]
                /\ store' = write_failing(store, blob, fault)
                /\ UNCHANGED indexFile
           ELSE IF fault = "fs::write" /\ r.out.tag = "ok"
           THEN /\ op' = ran @@ [out |-> Err("io error"), item |-> item]
                /\ store' = write(store, blob)
                /\ indexFile' = [exists |-> TRUE, bytes |-> <<>>]
           ELSE /\ store' = write(store, blob)
                /\ indexFile' = r.file
                /\ op' = ran @@ [out |-> r.out, item |-> item]
    /\ UNCHANGED <<index, onDisk, stack, ret, procs, fsys>>

\* The faults that leave the index file alone
Faults == {"none", "outside", "unreadable", "File::create", "write_all"}

Next ==
    \E path \in AddPaths, k \in 1..MaxStat, fault \in Faults :
        CmdAdd(path, k, fault)

Spec == Init /\ [][Next]_vars

BytesLess(a, b) ==
    \/ \E i \in 1..Min(Len(a), Len(b)) :
            a[i] < b[i] /\ \A j \in 1..(i - 1) : a[j] = b[j]
    \/ Len(a) < Len(b) /\ \A j \in 1..Len(a) : a[j] = b[j]

StoredItems == deserialize(indexFile.bytes).val.items

(* C1: starting from no index file, after any sequence of cmd_add runs the paths of the
   stored index are strictly ascending in byte order, so no path occurs twice. *)
C1_SortedNoDuplicates ==
    indexFile.exists =>
        /\ deserialize(indexFile.bytes).tag = "ok"
        /\ \A i \in 1..(Len(StoredItems) - 1) :
                BytesLess(StoredItems[i].path, StoredItems[i + 1].path)

\* The items without those of the path
Without(items, path) ==
    LET other(x) == x.path # path
    IN  SelectSeq(items, other)

Ascending(items) ==
    \A i \in 1..(Len(items) - 1) : BytesLess(items[i].path, items[i + 1].path)

\* Whether new is old with the entry put where the order of the paths wants it
StagedInto(old, new, entry) ==
    LET rest == Without(old, entry.path)
        at == {i \in 1..Len(new) : new[i].path = entry.path}
    IN  /\ Cardinality(at) = 1
        /\ \A i \in at :
            /\ new[i] = entry
            /\ SubSeq(new, 1, i - 1) \o SubSeq(new, i + 1, Len(new)) = rest
            /\ \A j \in 1..(i - 1) : ~BytesLess(entry.path, rest[j].path)
            /\ i <= Len(rest) => BytesLess(entry.path, rest[i].path)

\* A cmd_add that has found a sorted index in the file and returns Ok
StagesIntoSorted ==
    /\ indexFile.exists
    /\ deserialize(indexFile.bytes).tag = "ok"
    /\ Ascending(StoredItems)
    /\ op'.name = "add" /\ op'.out.tag = "ok"

(* C18: staging path P with entry E into an existing sorted index yields an index with
   exactly one entry of path P, equal to E, placed immediately before the first
   remaining entry whose path is byte-wise greater than P (a proper prefix sorting
   before the longer path) or at the end if there is none; the other entries are
   unchanged and keep their order. *)
C18_StagedInOrder ==
    [][StagesIntoSorted
        => /\ deserialize(indexFile'.bytes).tag = "ok"
           /\ StagedInto(StoredItems, deserialize(indexFile'.bytes).val.items, op'.item)]_vars

-----------------------------------------------------------------------------
(* The tree builder as a machine: write_tree on a path-sorted index, one step *)
(* of write_subtree at a time.  onDisk is what is_file() answers, which the   *)
(* working directory and the files present decide.                            *)

MaxDepth == 5
MaxChildren == 4

\* "a.txt", "dir/b.txt", "dir/sub/c.txt", "z.txt", in ascending byte order
TreePaths == <<<<97, 46, 116, 120, 116>>, <<100, 105, 114, 47, 98, 46, 116, 120, 116>>, <<100, 105, 114, 47, 115, 117, 98, 47, 99, 46, 116, 120, 116>>, <<122, 46, 116, 120, 116>>>>

TreeIndexes ==
    {[i \in 1..Len(ps) |-> StatItem(ps[i], TreePaths[ps[i]], HashOf(ps[i]), ps[i])] :
        ps \in {SetToSortedSeq(S) : S \in SUBSET (1..Len(TreePaths))}}

InitTree ==
    /\ indexFile = NoFile
    /\ store = NoStore
    /\ op = [name |-> "write_tree", written |-> <<>>]
    /\ index \in TreeIndexes
    /\ onDisk \in SUBSET {index[i].path : i \in 1..Len(index)}
    /\ stack = <<Frame(0, index)>>
    /\ ret = NoRet
    /\ procs = NoProcs
    /\ fsys = NoDisk

\* The branch of the loop for an entry that is a file on disk
WtBlob ==
    /\ stack # <<>>
    /\ Top.pos < Len(Top.items)
    /\ LET first == Top.items[Top.pos + 1]
       IN  /\ is_file(first.path, onDisk)
           /\ stack' = SetTop([Top EXCEPT
                    !.children = Append(@, TreeEntry(first.mode, first.path, first.hash)),
                    !.seen[Top.pos + 1] = @ + 1,
                    !.pos = @ + 1])
    /\ UNCHANGED <<indexFile, store, op, index, onDisk, ret, procs, fsys>>

\* The other branch, up to the recursive call
WtDescend ==
    /\ stack # <<>>
    /\ Top.pos < Len(Top.items)
    /\ Len(stack) < MaxDepth
    /\ Len(Top.children) < MaxChildren
    /\ LET first == Top.items[Top.pos + 1]
           subtree_path == subtree_path_of(first, Top.depth)
           subtree_end == subtree_end_of(Top.items, Top.pos, subtree_path)
           hi == IF subtree_end >= 0 THEN subtree_end ELSE Len(Top.items)
       IN  /\ ~is_file(first.path, onDisk)
           /\ IF hi < Top.pos
              THEN /\ stack' = <<>>
                   /\ ret' = Panic("slice index starts after its end")
              ELSE /\ stack' = Append(
                        SetTop([Top EXCEPT
                            !.seen = [i \in 1..Len(Top.items) |->
                                        IF i > Top.pos /\ i <= hi THEN @[i] + 1 ELSE @[i]],
                            !.call = [active |-> TRUE, path |-> subtree_path,
                                      end |-> subtree_end, lo |-> Top.pos, hi |-> hi]]),
                        Frame(Top.depth + 1, SubSeq(Top.items, Top.pos + 1, hi)))
                   /\ UNCHANGED ret
    /\ UNCHANGED <<indexFile, store, op, index, onDisk, procs, fsys>>

\* The end of the loop: the tree is written and returned, and the caller goes on
WtReturn ==
    /\ stack # <<>>
    /\ Top.pos >= Len(Top.items)
    /\ LET tree == Tree(Top.children)
           below == SubSeq(stack, 1, Len(stack) - 1)
       IN  /\ store' = write(store, tree)
           /\ op' = [op EXCEPT !.written = Append(@, tree)]
           /\ IF below = <<>>
              THEN /\ stack' = <<>>
                   /\ ret' = Ok(tree)
              ELSE LET caller == below[Len(below)]
                   IN  /\ stack' = [below EXCEPT ![Len(below)] = [caller EXCEPT
                                !.children = Append(@, TreeEntry(DirMode, caller.call.path, hash(tree))),
                                !.pos = IF caller.call.end >= 0 THEN caller.call.end
                                        ELSE Len(caller.items),
                                !.call.active = FALSE]]
                       /\ UNCHANGED ret
    /\ UNCHANGED <<indexFile, index, onDisk, procs, fsys>>

NextTree == WtBlob \/ WtDescend \/ WtReturn

SpecTree == InitTree /\ [][NextTree]_vars

\* The directory entries among the children of a tree
DirEntries(children) == {children[i] : i \in {j \in 1..Len(children) : children[j].mode = DirMode}}

(* C26: trees are stored bottom-up.  Whenever write_subtree writes a Tree, every
   subtree its directory entries name has been written before; at every point of a
   build, one that an error ends included, no Tree the build has stored names a
   subtree that is missing; and the root Tree is the last object written. *)
C26_BottomUp ==
    /\ \A f \in 1..Len(stack) : \A e \in DirEntries(stack[f].children) :
            /\ FileExists(store, e.hash)
            /\ \E w \in 1..Len(op.written) : hash(op.written[w]) = e.hash
    /\ \A w \in 1..Len(op.written) :
            /\ FileExists(store, hash(op.written[w]))
            /\ \A e \in DirEntries(op.written[w].children) :
                    \E v \in 1..(w - 1) : hash(op.written[v]) = e.hash
    /\ (stack = <<>> /\ ret.tag = "ok")
            => op.written # <<>> /\ op.written[Len(op.written)] = ret.val

\* A tree under construction holds a directory entry, whose subtree is stored, and a
\* blob entry
C26_Witness ==
    /\ stack # <<>>
    /\ DirEntries(Top.children) # {}
    /\ \E i \in 1..Len(Top.children) : Top.children[i].mode # DirMode
    /\ \A e \in DirEntries(Top.children) : FileExists(store, e.hash)

\* The directory mode the claim names, 0o40000
ClaimedDirMode == 4 * 4096

LastComponent(path) == components(path)[Len(components(path))]

\* The tree the claim describes for the items of one directory, depth components deep
RECURSIVE ClaimedTree(_, _)
ClaimedTree(items, depth) ==
    LET comp(i) == components(items[i].path)[depth + 1]
        IsFirstOfRun(i) == i = 1 \/ comp(i - 1) # comp(i)
        starts == SelectSeq([i \in 1..Len(items) |-> i], IsFirstOfRun)
        entry(i) ==
            IF Len(components(items[i].path)) = depth + 1
            THEN TreeEntry(items[i].mode, LastComponent(items[i].path), items[i].hash)
            ELSE LET InRun(x) == components(x.path)[depth + 1] = comp(i)
                 IN  TreeEntry(ClaimedDirMode, comp(i),
                               hash(ClaimedTree(SelectSeq(items, InRun), depth + 1)))
    IN  Tree([j \in 1..Len(starts) |-> entry(starts[j])])

Done == stack = <<>> /\ ret.tag # "none"

(* C7: for every path-sorted index write_tree returns the root Tree that holds, in path
   order, one blob entry per single-component path and one directory entry (mode
   0o40000, the component as name, the hash of the tree built from the entries one
   level deeper) per distinct first component of the other paths. *)
C7_TreeShape ==
    Done => ret = Ok(ClaimedTree(index, 0))

(* C8: in every call of write_subtree each entry of the slice is consumed exactly once,
   as a blob entry or as a member of the one contiguous sub-slice, starting at the
   cursor, that is passed to a recursive call; the cursor never passes the slice
   length and the call does not abort. *)
C8_ConsumedOnce ==
    /\ ret.tag # "panic"
    /\ \A f \in 1..Len(stack) :
        LET fr == stack[f]
        IN  /\ fr.pos <= Len(fr.items)
            /\ \A i \in 1..Len(fr.items) : fr.seen[i] <= 1
            /\ \A i \in 1..fr.pos : fr.seen[i] = 1
            /\ fr.call.active =>
                    /\ fr.call.lo = fr.pos
                    /\ fr.call.hi > fr.call.lo
                    /\ \A i \in 1..Len(fr.items) :
                        fr.seen[i] = (IF i <= fr.call.hi THEN 1 ELSE 0)

MaxComponents ==
    IF index = <<>> THEN 0
    ELSE LET n(i) == Len(components(index[i].path))
         IN  n(CHOOSE i \in 1..Len(index) : \A j \in 1..Len(index) : n(j) <= n(i))

(* C9: write_tree terminates, and the depth of the recursive write_subtree calls never
   exceeds the largest number of path components of an entry. *)
C9_DepthBounded ==
    \A f \in 1..Len(stack) : stack[f].depth <= MaxComponents

\* Whether the step handles the entry at the cursor as a blob of the given name
BlobStep(first, name) ==
    /\ Len(stack') = Len(stack)
    /\ stack'[Len(stack)].children = Append(Top.children, TreeEntry(first.mode, name, first.hash))
    /\ stack'[Len(stack)].pos = Top.pos + 1

(* C19: at every level the tree builder takes the entry at the cursor for a direct
   child file exactly when its path has depth + 1 components, whatever the working
   directory holds: it then appends a blob entry with the entry's mode and hash and
   the last path component as name and advances the cursor by one, and otherwise it
   does not. *)
C19_ClassifiedByPath ==
    [][(stack # <<>> /\ Top.pos < Len(Top.items))
        => LET first == Top.items[Top.pos + 1]
           IN  IF Len(components(first.path)) = Top.depth + 1
               THEN BlobStep(first, LastComponent(first.path))
               ELSE ~BlobStep(first, first.path) /\ ~BlobStep(first, LastComponent(first.path))]_vars

-----------------------------------------------------------------------------
(* Two processes in GitObject::write at once, with nothing between them but *)
(* the file system: each makes the directory, creates (truncates) the file  *)
(* and writes its bytes in one or more write calls.                         *)

ChunkLen == 8

Writers == {1, 2}

\* Blobs "hi" and "a b" and two commits that differ only in their message
CoObjects == {Blob(<<104, 105>>), Blob(<<97, 32, 98>>), Commit(<<109, 49>>), Commit(<<109, 50>>)}

\* A process at the start of write: hash and compress are already computed
Writer(o) ==
    [obj |-> o, path |-> StorePath(hash(o)), bytes |-> compress(o), pc |-> "start", off |-> 0]

InitCoWrite ==
    /\ indexFile = NoFile
    /\ store = NoStore
    /\ op = [name |-> "write", truncated |-> FALSE]
    /\ TreeIdle
    /\ fsys = NoDisk
    /\ procs \in [Writers -> {Writer(o) : o \in CoObjects}]

\* fs::create_dir_all
CwMkdir(p) ==
    /\ procs[p].pc = "start"
    /\ store' = [store EXCEPT !.dirs = @ \cup {procs[p].path[1]}]
    /\ procs' = [procs EXCEPT ![p].pc = "dir"]
    /\ UNCHANGED <<indexFile, op, index, onDisk, stack, ret, fsys>>

\* File::create: the file is made, or emptied if it is there
CwCreate(p) ==
    /\ procs[p].pc = "dir"
    /\ store' = [store EXCEPT !.files = PutFile(@, procs[p].path, <<>>)]
    /\ procs' = [procs EXCEPT ![p].pc = "open"]
    /\ op' = [op EXCEPT !.truncated =
                @ \/ (procs[p].path \in DOMAIN store.files /\ store.files[procs[p].path] # <<>>)]
    /\ UNCHANGED <<indexFile, index, onDisk, stack, ret, fsys>>

\* One write call of write_all
CwWrite(p) ==
    /\ procs[p].pc = "open"
    /\ LET me == procs[p]
           upto == Min(me.off + ChunkLen, Len(me.bytes))
           chunk == SubSeq(me.bytes, me.off + 1, upto)
       IN  /\ store' = [store EXCEPT !.files[me.path] = write_at(@, me.off, chunk)]
           /\ procs' = [procs EXCEPT ![p].off = upto,
                                     ![p].pc = IF upto = Len(me.bytes) THEN "done" ELSE "open"]
    /\ UNCHANGED <<indexFile, op, index, onDisk, stack, ret, fsys>>

NextCoWrite ==
    \/ \E p \in Writers : CwMkdir(p)
    \/ \E p \in Writers : CwCreate(p)
    \/ \E p \in Writers : CwWrite(p)

SpecCoWrite == InitCoWrite /\ [][NextCoWrite]_vars

(* C12: when two processes write objects at the same time, the same object or
   different ones, then in every interleaving of their steps, once both writes are
   complete the file of each object holds exactly the compressed header and content
   of that object. *)
C12_ConcurrentWritesIntact ==
    (\A p \in Writers : procs[p].pc = "done")
        => \A p \in Writers :
                /\ FileExists(store, hash(procs[p].obj))
                /\ store.files[StorePath(hash(procs[p].obj))] = compress(procs[p].obj)

\* Both writes are complete, they went to one file, and one process emptied the file
\* while it held bytes of the other
C12_Witness ==
    /\ \A p \in Writers : procs[p].pc = "done"
    /\ procs[1].path = procs[2].path
    /\ op.truncated
    /\ store.files[procs[1].path] = compress(procs[1].obj)

-----------------------------------------------------------------------------
(* Two cmd_add runs at once on one repository whose index file exists: each *)
(* writes its blob, reads the whole index file, upserts in memory, and      *)
(* rewrites the whole file with fs::write (create, then write).             *)

Adders == {1, 2}

\* The index both runs find: one entry, "ab"
BaseIndex == [version |-> 2, items |-> <<StatItem(1, <<97, 98>>, HashOf(1), 1)>>]

Adder(p, path) ==
    [path |-> path, item |-> StatItem(p, path, hash(Blob(FileBytes(p))), Len(FileBytes(p))),
     pc |-> "start", mem |-> NoIndex, saw |-> {}]

Paths(idx) == {idx.items[i].path : i \in 1..Len(idx.items)}

InitCoAdd ==
    /\ indexFile = [exists |-> TRUE, bytes |-> serialize(BaseIndex)]
    /\ store = NoStore
    /\ op = [name |-> "add", last |-> 0, overlap |-> FALSE]
    /\ TreeIdle
    /\ fsys = NoDisk
    /\ \E p1 \in AddPaths : \E p2 \in AddPaths \ {p1} :
            procs = [p \in Adders |-> Adder(p, IF p = 1 THEN p1 ELSE p2)]

\* blob.write
CaBlob(p) ==
    /\ procs[p].pc = "start"
    /\ store' = write(store, Blob(FileBytes(p)))
    /\ procs' = [procs EXCEPT ![p].pc = "hashed"]
    /\ UNCHANGED <<indexFile, op, index, onDisk, stack, ret, fsys>>

\* fs::read of the index file, deserialize, retain and insert
CaRead(p) ==
    /\ procs[p].pc = "hashed"
    /\ LET r == read_and_upsert(indexFile, procs[p].item)
       IN  procs' = [procs EXCEPT
                ![p].pc = IF r.tag = "ok" THEN "held" ELSE "failed",
                ![p].mem = IF r.tag = "ok" THEN r.val ELSE @,
                ![p].saw = {q \in Adders \ {p} : procs[q].pc = "done"}]
    /\ UNCHANGED <<indexFile, store, op, index, onDisk, stack, ret, fsys>>

\* fs::write, first half: File::create empties the index file
CaCreate(p) ==
    /\ procs[p].pc = "held"
    /\ indexFile' = [exists |-> TRUE, bytes |-> <<>>]
    /\ procs' = [procs EXCEPT ![p].pc = "created"]
    /\ op' = [op EXCEPT !.overlap = @ \/ \E q \in Adders \ {p} : procs[q].pc = "created"]
    /\ UNCHANGED <<store, index, onDisk, stack, ret, fsys>>

\* fs::write, second half: write_all of the serialized index
CaWrite(p) ==
    /\ procs[p].pc = "created"
    /\ indexFile' = [indexFile EXCEPT !.bytes = write_at(@, 0, serialize(procs[p].mem))]
    /\ procs' = [procs EXCEPT ![p].pc = "done"]
    /\ op' = [op EXCEPT !.last = p]
    /\ UNCHANGED <<store, index, onDisk, stack, ret, fsys>>

NextCoAdd ==
    \/ \E p \in Adders : CaBlob(p)
    \/ \E p \in Adders : CaRead(p)
    \/ \E p \in Adders : CaCreate(p)
    \/ \E p \in Adders : CaWrite(p)

SpecCoAdd == InitCoAdd /\ [][NextCoAdd]_vars

BothAdded == \A p \in Adders : procs[p].pc = "done"

(* C13: staging has no mutual exclusion; the last whole-file write wins.  When two
   concurrent cmd_add runs staging distinct paths have both finished, and their two
   file writes did not overlap, the index file holds the entries the last writer read
   and its own path: the other run's path is there only if the last writer read the
   file after the other run had written it. *)
C13_LastWriterWins ==
    (BothAdded /\ ~op.overlap)
        => LET w == op.last
               r == deserialize(indexFile.bytes)
           IN  /\ r.tag = "ok"
               /\ Paths(r.val) = {to_string_lossy(x) : x \in
                        Paths(BaseIndex) \cup {procs[w].path} \cup {procs[q].path : q \in procs[w].saw}}

\* Both runs have finished and the index file holds the path of only one of them
C13_Witness ==
    /\ BothAdded /\ ~op.overlap
    /\ deserialize(indexFile.bytes).tag = "ok"
    /\ LET held == Paths(deserialize(indexFile.bytes).val)
       IN  /\ to_string_lossy(procs[op.last].path) \in held
           /\ \E q \in Adders : to_string_lossy(procs[q].path) \notin held

-----------------------------------------------------------------------------
(* cmd_checkout run against a store that holds a blob, two trees and two   *)
(* commits, with files coming and going in the destination directory.      *)

\* The destination directory "d" and the names "f" and "foo.txt"
Destination == << <<100>> >>
DestNames == {<<102>>, <<103>>, <<102, 111, 111, 46, 116, 120, 116>>}

CoBlob == Blob(<<104, 105>>)
EmptyTree == Tree(<<>>)
\* A tree of the one file "f", with a mode that prints as four octal digits
OneFileTree == Tree(<<TreeEntry(512, <<102>>, hash(CoBlob))>>)

\* The text of a commit of the tree, as git writes it
CommitText(tree_hash) ==
    <<116, 114, 101, 101, 32>> \o hex_encode(tree_hash) \o <<10>> \o <<97, 117, 116, 104, 111, 114, 32, 65>> \o <<10>> \o <<99, 111, 109, 109, 105, 116, 116, 101, 114, 32, 67>> \o <<10, 10, 109>>

CommitFile(tree_hash) ==
    Deflate(CommitName \o <<32>> \o to_string(Len(CommitText(tree_hash))) \o <<0>> \o CommitText(tree_hash))

CommitOfOne == HashOf(11)
CommitOfNone == HashOf(12)

CheckoutStore ==
    LET st == write(write(write(NoStore, CoBlob), EmptyTree), OneFileTree)
    IN  [dirs |-> st.dirs \cup {StorePath(CommitOfOne)[1], StorePath(CommitOfNone)[1]},
         files |-> PutFile(PutFile(st.files, StorePath(CommitOfOne), CommitFile(hash(OneFileTree))),
                           StorePath(CommitOfNone), CommitFile(hash(EmptyTree)))]

\* "fake_hash", the two commits, a blob, and a hash the store does not hold
CommitArgs ==
    {<<102, 97, 107, 101, 95, 104, 97, 115, 104>>, hex_encode(CommitOfOne), hex_encode(CommitOfNone), hex_encode(hash(CoBlob)),
     hex_encode(MissingHash)}

InitCheckout ==
    /\ indexFile = NoFile
    /\ store = CheckoutStore
    /\ op = [name |-> "none"]
    /\ index = <<>> /\ onDisk = {} /\ stack = <<>> /\ ret = NoRet
    /\ procs = NoProcs
    /\ fsys \in {NoDisk, PutNode(NoDisk, Destination, Dir)}

Checkout(commit, in_repo) ==
    /\ LET r == cmd_checkout(fsys, store, commit, Destination, in_repo)
       IN  /\ fsys' = r.fsys
           /\ op' = [name |-> "checkout", commit |-> commit, pre |-> fsys, out |-> r.out]
    /\ UNCHANGED <<indexFile, store, index, onDisk, stack, ret, procs>>

\* Somebody else puts a file into the destination directory, or takes one out
DestPut(name, k) ==
    /\ IsDir(fsys, Destination)
    /\ fsys' = PutNode(fsys, Append(Destination, name), File(FileBytes(k)))
    /\ op' = [name |-> "none"]
    /\ UNCHANGED <<indexFile, store, index, onDisk, stack, ret, procs>>

DestRemove(name) ==
    /\ Append(Destination, name) \in DOMAIN fsys
    /\ fsys' = [x \in DOMAIN fsys \ {Append(Destination, name)} |-> fsys[x]]
    /\ op' = [name |-> "none"]
    /\ UNCHANGED <<indexFile, store, index, onDisk, stack, ret, procs>>

NextCheckout ==
    \/ \E commit \in CommitArgs, in_repo \in BOOLEAN : Checkout(commit, in_repo)
    \/ \E name \in DestNames, k \in 1..MaxStat : DestPut(name, k)
    \/ \E name \in DestNames : DestRemove(name)

SpecCheckout == InitCheckout /\ [][NextCheckout]_vars

\* What a directory holds
HeldIn(fs, dir) == {x \in DOMAIN fs : Len(x) > Len(dir) /\ SubSeq(x, 1, Len(dir)) = dir}

(* C14: cmd_checkout returns an error and leaves the destination as it was whenever
   the destination directory holds at least one entry, whatever the commit argument:
   a commit of the store, an object that is no commit, an unknown hash, or no hash. *)
C14_NonEmptyDestinationRefused ==
    (op.name = "checkout" /\ HeldIn(op.pre, Destination) # {})
        => /\ op.out.tag = "err"
           /\ fsys = op.pre

\* A checkout of a commit the store holds, refused because the destination holds a file
C14_Witness ==
    /\ op.name = "checkout"
    /\ op.commit = hex_encode(CommitOfOne)
    /\ HeldIn(op.pre, Destination) # {}
    /\ op.out = Err("Destination directory is not empty!")

-----------------------------------------------------------------------------
(* cmd_init on a file system that may hold a repository, or parts of one, already *)

InitRoot == <<"r">>
Cwd == <<"w">>
InitArgs == {[some |-> TRUE, v |-> InitRoot], [some |-> FALSE]}

\* What may be there before cmd_init runs: a branch, an index file, a file named .grit
Before == {<<"r", ".grit", "refs", "heads", "master">>, <<"r", ".grit", "index">>,
           <<"w", ".grit">>, <<"r", ".git", "HEAD">>}

InitInit ==
    /\ indexFile = NoFile
    /\ store = NoStore
    /\ op = [name |-> "none"]
    /\ index = <<>> /\ onDisk = {} /\ stack = <<>> /\ ret = NoRet
    /\ procs = NoProcs
    /\ fsys = PutNode(PutNode(NoDisk, InitRoot, Dir), Cwd, Dir)

\* A file is written below the roots, its directories made for it
BeforePut(path) ==
    /\ op.name = "none"
    /\ path \notin DOMAIN fsys
    /\ LET made == create_dir_all(fsys, SubSeq(path, 1, Len(path) - 1))
       IN  /\ made.out.tag = "ok"
           /\ fsys' = PutNode(made.fsys, path, File("x"))
    /\ UNCHANGED <<indexFile, store, op, index, onDisk, stack, ret, procs>>

\* The cmd_init of lib.rs
LibInit(path, git_mode) ==
    /\ LET r == cmd_init(fsys, path, Cwd, git_mode)
       IN  /\ fsys' = r.fsys
           /\ op' = [name |-> "init", of |-> "lib.rs", root |-> init_root(path, Cwd),
                     given |-> path.some, git_mode |-> git_mode, out |-> r.out]
    /\ UNCHANGED <<indexFile, store, index, onDisk, stack, ret, procs>>

\* The cmd_init of init.rs
FileInit(path, git_mode) ==
    /\ LET r == init_cmd_init(fsys, path, Cwd, git_mode)
       IN  /\ fsys' = r.fsys
           /\ op' = [name |-> "init", of |-> "init.rs", root |-> init_root(path, Cwd),
                     given |-> path.some, git_mode |-> git_mode, out |-> r.out]
    /\ UNCHANGED <<indexFile, store, index, onDisk, stack, ret, procs>>

NextInit ==
    \/ \E path \in Before : BeforePut(path)
    \/ \E path \in InitArgs, git_mode \in BOOLEAN : LibInit(path, git_mode)
    \/ \E path \in InitArgs, git_mode \in BOOLEAN : FileInit(path, git_mode)

SpecInit == InitInit /\ [][NextInit]_vars

\* The paths the test of cmd_init expects below the root
ExpectedPaths ==
    {<<".grit", "HEAD">>, <<".grit", "branches">>, <<".grit", "config">>, <<".grit", "hooks">>,
     <<".grit", "index">>, <<".grit", "info">>, <<".grit", "logs">>, <<".grit", "objects">>,
     <<".grit", "refs", "heads">>, <<".grit", "refs", "tags">>}

(* C15: after cmd_init(Some(path)) succeeds in non-git mode, .grit/HEAD, branches,
   config, hooks, index, info, logs, objects, refs/heads and refs/tags all exist
   under path, and .grit/refs/heads is empty. *)
C15_InitLayout ==
    (op.name = "init" /\ op.given /\ ~op.git_mode /\ op.out.tag = "ok")
        => /\ \A e \in ExpectedPaths : (op.root \o e) \in DOMAIN fsys
           /\ HeldIn(fsys, op.root \o <<".grit", "refs", "heads">>) = {}

-----------------------------------------------------------------------------
(* parse_commit on texts put together line by line *)

MaxLines == 4

\* "gpgsig", a key parse_commit does not know
ExtraKey == <<103, 112, 103, 115, 105, 103>>

HeaderLine(key, value) == key \o <<32>> \o value \o <<10>>

\* The header lines a text is made of, by key
LineOf(key) ==
    CASE key = "tree" -> HeaderLine(TreeKey, hex_encode(HashOf(11)))
      [] key = "parent" -> HeaderLine(ParentKey, hex_encode(HashOf(12)))
      [] key = "author" -> HeaderLine(AuthorKey, <<65>>)
      [] key = "committer" -> HeaderLine(CommitterKey, <<67>>)
      [] key = "date" -> HeaderLine(DateKey, <<68>>)
      [] key = "extra" -> HeaderLine(ExtraKey, <<120>>)

LineKeys == {"tree", "parent", "author", "committer", "date", "extra"}
Required == {"tree", "author", "committer"}

\* Messages: "m", "a" and "b" on two lines with an empty line between, and lines that
\* look like the headers parent and date
Messages ==
    {<<109>>, <<97, 10, 10, 98, 10>>,
     HeaderLine(ParentKey, hex_encode(HashOf(13))) \o HeaderLine(DateKey, <<69>>)}

\* The blank line and the message
MessagePart(message) == <<10>> \o message

InitCommitText ==
    /\ indexFile = NoFile
    /\ store = NoStore
    /\ op = [name |-> "text", text |-> <<>>, plain |-> <<>>, keys |-> {}, lines |-> 0,
             closed |-> FALSE, message |-> <<>>]
    /\ index = <<>> /\ onDisk = {} /\ stack = <<>> /\ ret = NoRet
    /\ procs = NoProcs
    /\ fsys = NoDisk

\* One more header line; plain is the text without the lines of the unknown key
AddLine(key) ==
    /\ op.name = "text" /\ ~op.closed /\ op.lines < MaxLines
    /\ op' = [op EXCEPT !.text = @ \o LineOf(key),
                        !.plain = IF key = "extra" THEN @ ELSE @ \o LineOf(key),
                        !.keys = @ \cup {key},
                        !.lines = @ + 1]
    /\ UNCHANGED <<indexFile, store, index, onDisk, stack, ret, procs, fsys>>

AddMessage(message) ==
    /\ op.name = "text" /\ ~op.closed
    /\ op' = [op EXCEPT !.text = @ \o MessagePart(message), !.plain = @ \o MessagePart(message),
                        !.closed = TRUE, !.message = message]
    /\ UNCHANGED <<indexFile, store, index, onDisk, stack, ret, procs, fsys>>

ParseCommit ==
    /\ op.name = "text"
    /\ ret' = parse_commit(op.text)
    /\ op' = [op EXCEPT !.name = "parse_commit"]
    /\ UNCHANGED <<indexFile, store, index, onDisk, stack, procs, fsys>>

NextCommitText ==
    \/ \E key \in LineKeys : AddLine(key)
    \/ \E message \in Messages : AddMessage(message)
    \/ ParseCommit

SpecCommitText == InitCommitText /\ [][NextCommitText]_vars

(* C16: parse_commit returns an error value, and does not panic, for a text that
   lacks tree, author or committer; it succeeds with parent = None and date = None
   when only those optional keys are missing; and lines of unknown keys do not
   change the Commit it returns. *)
C16_CommitParse ==
    op.name = "parse_commit"
        => /\ ret.tag # "panic"
           /\ (Required \ op.keys # {}) => ret.tag = "err"
           /\ (Required \subseteq op.keys)
                => /\ ret.tag = "ok"
                   /\ ("parent" \notin op.keys) => ret.val.parent = None
                   /\ ("date" \notin op.keys) => ret.val.date = None
           /\ ret = parse_commit(op.plain)

-----------------------------------------------------------------------------
(* parse_tree on the content of trees, and on buffers put together record by record *)

MaxRecords == 2

\* Mode tokens: "1000", "100644", and the four bytes of 0o100644 as a big-endian u32
ModeTokens == {<<49, 48, 48, 48>>, fmt_octal(RegularMode), append_u32(RegularMode)}

RecordNames == {<<97>>, <<97, 98>>}

\* What a record may lack
Flaws == {"none", "no_space", "no_nul", "short_hash"}

\* A hash without a space and without a NUL among its bytes
PlainHash == [i \in 1..20 |-> i]

RawRecord(token, name, flaw) ==
    token \o (IF flaw = "no_space" THEN <<>> ELSE <<32>>)
          \o name \o (IF flaw = "no_nul" THEN <<>> ELSE <<0>>)
          \o (IF flaw = "short_hash" THEN SubSeq(PlainHash, 1, 19) ELSE PlainHash)

\* 0o100755
ExecutableMode == 32768 + 493

CodecTrees ==
    {Tree(<<>>),
     Tree(<<TreeEntry(512, <<97>>, PlainHash)>>),
     Tree(<<TreeEntry(RegularMode, <<97>>, PlainHash)>>),
     Tree(<<TreeEntry(ExecutableMode, <<120>>, PlainHash)>>),
     Tree(<<TreeEntry(DirMode, <<100>>, HashOf(1)), TreeEntry(RegularMode, <<102>>, HashOf(2))>>),
     Tree(<<TreeEntry(4 * 4096, <<100>>, HashOf(1)), TreeEntry(RegularMode, <<102>>, HashOf(2))>>)}

InitTreeBytes ==
    /\ indexFile = NoFile
    /\ store = NoStore
    /\ op = [name |-> "bytes", bytes |-> <<>>, src |-> None, flaw |-> "none", records |-> 0]
    /\ index = <<>> /\ onDisk = {} /\ stack = <<>> /\ ret = NoRet
    /\ procs = NoProcs
    /\ fsys = NoDisk

\* The buffer is the content of a tree
TbEncode(t) ==
    /\ op.name = "bytes" /\ op.records = 0 /\ op.src = None
    /\ op' = [op EXCEPT !.bytes = content_bytes(t), !.src = Some(t)]
    /\ UNCHANGED <<indexFile, store, index, onDisk, stack, ret, procs, fsys>>

\* One more record at the end of the buffer; a record that lacks something is the last
TbRecord(token, name, flaw) ==
    /\ op.name = "bytes" /\ op.src = None /\ op.flaw = "none" /\ op.records < MaxRecords
    /\ op' = [op EXCEPT !.bytes = @ \o RawRecord(token, name, flaw), !.flaw = flaw,
                        !.records = @ + 1]
    /\ UNCHANGED <<indexFile, store, index, onDisk, stack, ret, procs, fsys>>

TbParse ==
    /\ op.name = "bytes"
    /\ ret' = parse_tree(op.bytes)
    /\ op' = [op EXCEPT !.name = "parse_tree"]
    /\ UNCHANGED <<indexFile, store, index, onDisk, stack, procs, fsys>>

NextTreeBytes ==
    \/ \E t \in CodecTrees : TbEncode(t)
    \/ \E token \in ModeTokens, name \in RecordNames, flaw \in Flaws : TbRecord(token, name, flaw)
    \/ TbParse

SpecTreeBytes == InitTreeBytes /\ [][NextTreeBytes]_vars

(* C17: the tree content parser returns an error value, and does not panic, for a
   buffer in which a record lacks the space after the mode, lacks the NUL after the
   name, or has fewer than 20 bytes after the NUL. *)
C17_BadRecordIsError ==
    (op.name = "parse_tree" /\ op.flaw # "none") => ret.tag = "err"

\* The modes of a regular file, an executable file and a directory: 0o100644,
\* 0o100755, 0o40000
ClaimedModes == {RegularMode, ExecutableMode, ClaimedDirMode}

(* C20: the tree codec round-trips: for every Tree whose entries have a regular,
   executable or directory mode, a name without separator and a 20-byte hash, parsing
   its serialized content yields the same entries in the same order, with equal mode
   (the mode token read as octal ASCII), name and hash, the parser stopping exactly
   when the buffer is exhausted. *)
C20_TreeRoundTrip ==
    (/\ op.name = "parse_tree"
     /\ op.src # None
     /\ \A i \in 1..Len(op.src.v.children) : op.src.v.children[i].mode \in ClaimedModes)
        => ret = Ok(op.src.v)

-----------------------------------------------------------------------------
\* The values the header lines of a text give, by key
ValueOf(key) ==
    CASE key = "tree" -> HashOf(11)
      [] key = "parent" -> Some(HashOf(12))
      [] key = "author" -> <<65>>
      [] key = "committer" -> <<67>>
      [] key = "date" -> Some(<<68>>)

FromHeaders(key, keys) == IF key \in keys THEN ValueOf(key) ELSE None

(* C21: in parse_commit the first blank line ends the headers, and the message is
   exactly the text after that blank line, with its new lines and with lines that
   look like headers; nothing after the blank line is read as a header. *)
C21_MessageVerbatim ==
    (op.name = "parse_commit" /\ op.closed /\ ret.tag = "ok")
        => /\ ret.val.message = op.message
           /\ ret.val.tree = ValueOf("tree")
           /\ ret.val.author = ValueOf("author")
           /\ ret.val.committer = ValueOf("committer")
           /\ ret.val.parent = FromHeaders("parent", op.keys)
           /\ ret.val.date = FromHeaders("date", op.keys)

\* A commit without parent and date whose message holds lines that look like both
C21_Witness ==
    /\ op.name = "parse_commit" /\ op.closed /\ ret.tag = "ok"
    /\ op.keys = Required
    /\ Len(op.message) > 40
    /\ ret.val.parent = None
    /\ ret.val.message = op.message

(* C30: for a commit text that holds all required headers and no blank line, ending
   after the last header line, parse_commit returns a Commit whose message is empty:
   the message holds no bytes of a header key or value. *)
C30_NoBlankLineNoMessage ==
    (op.name = "parse_commit" /\ ~op.closed /\ Required \subseteq op.keys)
        => /\ ret.tag = "ok"
           /\ ret.val.message = <<>>

-----------------------------------------------------------------------------
\* Where the entries end in the bytes serialize writes for the items, the first entry
\* beginning at pos
RECURSIVE WrittenEnds(_, _)
WrittenEnds(items, pos) ==
    IF items = <<>> THEN <<>>
    ELSE <<pos + Len(serialize_item(Head(items)))>>
         \o WrittenEnds(Tail(items), pos + Len(serialize_item(Head(items))))

\* Where deserialize stands after each of n entries read from pos on
RECURSIVE ReadEnds(_, _, _)
ReadEnds(bytes, pos, n) ==
    IF n = 0 THEN <<>>
    ELSE LET r == deserialize_item(SubSeq(bytes, pos + 1, Len(bytes)))
         IN  IF r.tag # "ok" THEN <<-1>>
             ELSE <<pos + r.item_len>> \o ReadEnds(bytes, pos + r.item_len, n - 1)

\* The NUL bytes at the end of a byte string
RECURSIVE TrailingNuls(_)
TrailingNuls(bytes) ==
    IF bytes = <<>> \/ bytes[Len(bytes)] # 0 THEN 0
    ELSE 1 + TrailingNuls(SubSeq(bytes, 1, Len(bytes) - 1))

\* The length of an entry before its padding
Unpadded(item) == FixedLen + Len(to_string_lossy(item.path))

(* C22: every serialized index entry has a length that is a multiple of 8 and ends
   with 1 to 8 NUL padding bytes, 8 of them when the unpadded length is a multiple of
   8 already; deserialize advances by the same length for each entry, so that after
   the N entries it stands at the offset of the trailing checksum. *)
C22_EntriesAligned ==
    (op.name = "serialize")
        => LET items == op.src.items
               written == WrittenEnds(items, 12)
               read == ReadEnds(indexFile.bytes, 12, Len(items))
           IN  /\ \A i \in 1..Len(items) :
                    LET entry == serialize_item(items[i])
                        npad == Len(entry) - Unpadded(items[i])
                    IN  /\ Len(entry) % 8 = 0
                        /\ npad \in 1..8
                        /\ Unpadded(items[i]) % 8 = 0 => npad = 8
                        /\ TrailingNuls(SubSeq(entry, Unpadded(items[i]) + 1, Len(entry))) = npad
               /\ read = written
               /\ (IF items = <<>> THEN 12 ELSE read[Len(read)]) = Len(indexFile.bytes) - 20

\* An index written with MaxItems entries, one of them "ab", whose unpadded length is 64
C22_Witness ==
    /\ op.name = "serialize"
    /\ Len(op.src.items) = MaxItems
    /\ \E i \in 1..Len(op.src.items) :
            /\ Unpadded(op.src.items[i]) % 8 = 0
            /\ Len(serialize_item(op.src.items[i])) = Unpadded(op.src.items[i]) + 8
    /\ ReadEnds(indexFile.bytes, 12, MaxItems)[MaxItems] = Len(indexFile.bytes) - 20

-----------------------------------------------------------------------------
(* hash-object followed by cat-file in one repository *)

MaxHashed == 3

\* The files hashed: an empty file, "hi", "a b", and a file that reads "blob 1", NUL, "x"
HashedFiles == {<<>>, <<104, 105>>, <<97, 32, 98>>, BlobName \o <<32, 49, 0, 120>>}

InitHashObject ==
    /\ indexFile = NoFile
    /\ store = NoStore
    /\ op = [name |-> "none", n |-> 0]
    /\ index = <<>> /\ onDisk = {} /\ stack = <<>> /\ ret = NoRet
    /\ procs = NoProcs
    /\ fsys = NoDisk

HashObject(file_bytes, type, do_write, in_repo) ==
    /\ op.n < MaxHashed
    /\ LET r == cmd_hash_object(store, file_bytes, type, do_write, in_repo)
       IN  /\ store' = r.store
           /\ op' = [name |-> "hash_object", n |-> op.n + 1, content |-> file_bytes,
                     type |-> type, write |-> do_write, printed |-> r.printed, out |-> r.out]
    /\ ret' = NoRet
    /\ UNCHANGED <<indexFile, index, onDisk, stack, procs, fsys>>

\* cat-file on the hash just printed: parse_hash, then search_object
CatPrinted ==
    /\ op.name = "hash_object"
    /\ LET h == parse_hash(op.printed)
       IN  ret' = IF h.tag # "ok" THEN h ELSE search_object(store, h.val)
    /\ op' = [op EXCEPT !.name = "cat_file"]
    /\ UNCHANGED <<indexFile, store, index, onDisk, stack, procs, fsys>>

NextHashObject ==
    \/ \E file_bytes \in HashedFiles, type \in {BlobName, CommitName},
          do_write \in BOOLEAN, in_repo \in BOOLEAN :
            HashObject(file_bytes, type, do_write, in_repo)
    \/ CatPrinted

SpecHashObject == InitHashObject /\ [][NextHashObject]_vars

(* C23: an object stored by hash-object -w is in the store format: the file at
   objects/<hex[0:2]>/<hex[2:]> of the printed hash holds the compressed header and
   content, so a search_object on the printed hash in the same repository returns a
   Blob whose bytes are those of the file that was hashed. *)
C23_HashObjectStores ==
    (/\ op.name = "cat_file" /\ op.write /\ op.out.tag = "ok" /\ op.type = BlobName)
        => /\ store.files[StorePath(parse_hash(op.printed).val)] = compress(Blob(op.content))
           /\ ret = Ok(Some(Blob(op.content)))

-----------------------------------------------------------------------------
(* cmd_commit: the index is read, and status is run or the tree is built, one step of *)
(* write_subtree at a time                                                            *)

\* The index files cmd_commit may find: none, one without entries, one that is not an
\* index, and those of the tree builder's indexes
InitCommit ==
    /\ \/ indexFile = NoFile
       \/ indexFile = [exists |-> TRUE, bytes |-> <<88>>]
       \/ \E items \in TreeIndexes :
            indexFile = [exists |-> TRUE, bytes |-> serialize([version |-> 2, items |-> items])]
    /\ store \in {NoStore, write(NoStore, Blob(<<104, 105>>))}
    /\ op = [name |-> "none"]
    /\ index = <<>>
    /\ onDisk \in SUBSET {TreePaths[1], TreePaths[2]}
    /\ stack = <<>>
    /\ ret = NoRet
    /\ procs = NoProcs
    /\ fsys = NoDisk

\* cmd_commit up to the call of cmd_status or of write_tree; cmd_status reads the index
\* and the working tree and writes nothing
CmdCommit(in_repo, status_ok) ==
    /\ op.name = "none"
    /\ LET idx == read_index(indexFile)
           begun == [name |-> "commit", file |-> indexFile, store |-> store, written |-> <<>>]
       IN  IF ~in_repo
           THEN /\ op' = begun @@ [ran |-> "none", out |-> Panic("fatal: not a grit repository")]
                /\ UNCHANGED <<index, stack>>
           ELSE IF idx.tag # "ok"
           THEN /\ op' = begun @@ [ran |-> "none", out |-> idx]
                /\ UNCHANGED <<index, stack>>
           ELSE IF nothing_staged(idx.val)
           THEN /\ op' = begun @@ [ran |-> "status",
                                   out |-> IF status_ok THEN Ok(<<>>) ELSE Err("io error")]
                /\ UNCHANGED <<index, stack>>
           ELSE /\ op' = begun @@ [ran |-> "write_tree", out |-> Ok(<<>>)]
                /\ index' = idx.val.items
                /\ stack' = <<Frame(0, idx.val.items)>>
    /\ UNCHANGED <<indexFile, store, onDisk, ret, procs, fsys>>

NextCommit ==
    \/ \E in_repo \in BOOLEAN, status_ok \in BOOLEAN : CmdCommit(in_repo, status_ok)
    \/ WtBlob
    \/ WtDescend
    \/ WtReturn

SpecCommit == InitCommit /\ [][NextCommit]_vars

\* Whether the index file cmd_commit found stages nothing
FoundNothingStaged ==
    \/ ~op.file.exists
    \/ /\ deserialize(op.file.bytes).tag = "ok"
       /\ deserialize(op.file.bytes).val.items = <<>>

(* C24: cmd_commit with nothing staged, no index file or an index without entries,
   runs status instead and leaves the object store and the index as they were: no
   Tree object is written. *)
C24_NothingStagedNothingWritten ==
    (op.name = "commit" /\ op.out.tag # "panic" /\ FoundNothingStaged)
        => /\ op.ran = "status"
           /\ store = op.store
           /\ indexFile = op.file
           /\ stack = <<>> /\ ret = NoRet

\* A commit on an index file without entries, in a store that holds a blob
C24_Witness ==
    /\ op.name = "commit" /\ op.ran = "status"
    /\ op.file.exists
    /\ store = op.store /\ store # NoStore

-----------------------------------------------------------------------------
(* cmd_add runs, one process at a time, with every step that can fail failing, on a *)
(* repository whose index file may be one that does not deserialize                 *)

\* No index file, or one whose signature is not UTF-8
InitAddFaults ==
    /\ indexFile \in {NoFile, [exists |-> TRUE, bytes |-> <<255, 255, 255, 255>>]}
    /\ store = NoStore
    /\ op = [name |-> "none", n |-> 0]
    /\ TreeIdle
    /\ fsys = NoDisk
    /\ procs = NoProcs

\* Two of the paths rebase_path can return
FaultPaths == {<<97>>, <<97, 98>>}

NextAddFaults ==
    \E path \in FaultPaths, k \in 1..MaxStat, fault \in Faults \cup {"fs::write"} :
        CmdAdd(path, k, fault)

SpecAddFaults == InitAddFaults /\ [][NextAddFaults]_vars

\* Whether the store holds the blob a staged entry names
BlobStored(st, item) ==
    LET found == search_object(st, item.hash)
    IN  /\ found.tag = "ok"
        /\ found.val.some
        /\ found.val.v.kind = "blob"
        /\ Len(found.val.v.bytes) = item.size

(* C25: in every state reached by cmd_add runs of one process at a time, successful or
   failing at any step, every entry of the index file has a hash whose blob is in the
   object store, the blob being written before the index is rewritten. *)
C25_StagedBlobsStored ==
    (indexFile.exists /\ deserialize(indexFile.bytes).tag = "ok")
        => \A i \in 1..Len(StoredItems) : BlobStored(store, StoredItems[i])

\* Whether every object file the run found is still there with the bytes it had
StoredKept == \A x \in DOMAIN op.store.files :
                  x \in DOMAIN store.files /\ store.files[x] = op.store.files[x]

(* C28: a cmd_add that returns an error at a step before its final write (path outside
   the repository, file unreadable, blob write failed, index that does not
   deserialize) leaves the index file as it was, byte for byte; all it may have
   changed is the blob added to the object store. *)
C28_FailedAddKeepsIndex ==
    (op.name = "add" /\ op.out.tag = "err" /\ op.fault # "fs::write")
        => /\ indexFile = op.file
           /\ StoredKept

\* The half of C28 about the index file alone
C28_IndexKept ==
    (op.name = "add" /\ op.out.tag = "err" /\ op.fault # "fs::write") => indexFile = op.file

-----------------------------------------------------------------------------
(* A search_object while processes are in GitObject::write: the reader tests *)
(* that the file exists and reads it whole, between any two steps of the     *)
(* writers.                                                                  *)

\* Blobs "hi", "a b" and "grit"
ReadObjects == {Blob(<<104, 105>>), Blob(<<97, 32, 98>>), Blob(<<103, 114, 105, 116>>)}

InitCoRead ==
    /\ indexFile = NoFile
    /\ store = NoStore
    /\ op = [name |-> "write", truncated |-> FALSE]
    /\ TreeIdle
    /\ fsys = NoDisk
    /\ procs \in [Writers -> {Writer(o) : o \in ReadObjects}]

\* search_object for the hash of the object that process p writes
CrSearch(p) ==
    /\ ret' = [name |-> "search", obj |-> procs[p].obj, during |-> procs[p].pc,
               found |-> search_object(store, hash(procs[p].obj))]
    /\ UNCHANGED <<indexFile, store, op, index, onDisk, stack, procs, fsys>>

NextCoRead ==
    \/ \E p \in Writers : CwMkdir(p) /\ ret' = ret
    \/ \E p \in Writers : CwCreate(p) /\ ret' = ret
    \/ \E p \in Writers : CwWrite(p) /\ ret' = ret
    \/ \E p \in Writers : CrSearch(p)

SpecCoRead == InitCoRead /\ [][NextCoRead]_vars

(* C29: a search_object for hash h that runs while the object of hash h is being
   written finds, in every interleaving with the writer's create-or-truncate step and
   its write steps, either no object or the complete object: never an error and never
   an object with other content. *)
C29_AbsentOrComplete ==
    ret # NoRet
        => /\ ret.found.tag = "ok"
           /\ ret.found.val.some => ret.found.val.v = ret.obj

\* The half of C29 about content: a search that does return an object returns the
\* one that is written
C29_NeverOtherContent ==
    (ret # NoRet /\ ret.found.tag = "ok" /\ ret.found.val.some) => ret.found.val.v = ret.obj

-----------------------------------------------------------------------------
(* The same set of paths staged by cmd_add in two orders from one starting index *)

MaxPaths == 3

\* "a", "a/b", "b", and two files whose names are the single bytes 0xFE and 0xFF
OrderPaths == <<<<97>>, <<97, 47, 98>>, <<98>>, <<254>>, <<255>>>>

\* The one entry staged for the n-th path
OrderItem(n) == StatItem(n, OrderPaths[n], hash(Blob(FileBytes(n))), Len(FileBytes(n)))

\* No index file, or the index that cmd_add has left after staging "ab"
OrderStarts == {NoFile, upsert_file(NoFile, StatItem(1, <<97, 98>>, hash(Blob(FileBytes(1))), 2)).file}

InitOrder ==
    /\ indexFile \in OrderStarts
    /\ store = NoStore
    /\ \E S \in SUBSET (1..Len(OrderPaths)) :
            /\ Cardinality(S) \in 2..MaxPaths
            /\ op = [name |-> "order", paths |-> S,
                     left |-> [todo |-> S, file |-> indexFile],
                     right |-> [todo |-> S, file |-> indexFile]]
    /\ TreeIdle
    /\ fsys = NoDisk
    /\ procs = NoProcs

\* The next cmd_add of the first run: any path not yet staged
StageLeft(n) ==
    /\ n \in op.left.todo
    /\ op' = [op EXCEPT !.left = [todo |-> @.todo \ {n}, file |-> upsert_file(@.file, OrderItem(n)).file]]
    /\ UNCHANGED <<indexFile, store, index, onDisk, stack, ret, procs, fsys>>

\* The next cmd_add of the second run, which starts from the same index file
StageRight(n) ==
    /\ op.left.todo = {}
    /\ n \in op.right.todo
    /\ op' = [op EXCEPT !.right = [todo |-> @.todo \ {n}, file |-> upsert_file(@.file, OrderItem(n)).file]]
    /\ UNCHANGED <<indexFile, store, index, onDisk, stack, ret, procs, fsys>>

NextOrder ==
    \/ \E n \in 1..Len(OrderPaths) : StageLeft(n)
    \/ \E n \in 1..Len(OrderPaths) : StageRight(n)

SpecOrder == InitOrder /\ [][NextOrder]_vars

BothStaged == op.left.todo = {} /\ op.right.todo = {}

(* C27: staging does not depend on the order.  For every set of distinct paths with
   one entry each, staging them in any two orders from the same starting index gives
   the same final sequence of index entries. *)
C27_OrderIndependent ==
    BothStaged => deserialize(op.left.file.bytes) = deserialize(op.right.file.bytes)

\* The same for sets of paths of which at most one is not UTF-8
C27_OrderIndependentUtf8 ==
    (BothStaged /\ ~({4, 5} \subseteq op.paths))
        => deserialize(op.left.file.bytes) = deserialize(op.right.file.bytes)

====
